---- MODULE Spec2Model ----
(***************************************************************************)
(* Finance tracker: the record store (state.js), its persistence           *)
(* (storage.js), the regex search (search.js), the form validators         *)
(* (validators.js) and the application controller (app.js).                *)
(*                                                                         *)
(* Representation.  A text is a sequence of one-character strings.  A      *)
(* number is an integer count of thousandths (12.5 is 12500); NaN is the   *)
(* record-free sentinel NaN.  An instant is a count of hours since the     *)
(* epoch, UTC.  The value undefined of a record field is Undef.  A date    *)
(* that is no string but a number is held as its decimal text, with the    *)
(* dateType "number".                                                      *)
(***************************************************************************)
EXTENDS Integers, Sequences, FiniteSets, TLC

(***************************************************************************)
(* Bounds of the model.                                                    *)
(***************************************************************************)
MaxRecords == 2     \* the form adds a record only while fewer are held
MaxTicks   == 1     \* hours the clock may advance in a behaviour
MaxNewIds  == 2     \* ids crypto.randomUUID hands out in a behaviour
MaxLoaded  == 30    \* the longest description submitted as the form loaded it
MaxFaults  == 1     \* writes to localStorage that fail in a behaviour

(***************************************************************************)
(* Characters and texts.                                                   *)
(***************************************************************************)
UpperCase == <<"A","B","C","D","E","F","G","H","I","J","K","L","M",
               "N","O","P","Q","R","S","T","U","V","W","X","Y","Z">>
LowerCase == <<"a","b","c","d","e","f","g","h","i","j","k","l","m",
               "n","o","p","q","r","s","t","u","v","w","x","y","z">>
DigitChars == <<"0","1","2","3","4","5","6","7","8","9">>

Range(f) == { f[i] : i \in DOMAIN f }

DigitSet == Range(DigitChars)
UpperSet == Range(UpperCase)
WordSet  == Range(UpperCase) \cup Range(LowerCase) \cup Range(DigitChars) \cup {"_"}

IsDigit(c) == c \in DigitSet
IsSpace(c) == c = " "
IsWordChar(c) == c \in WordSet

LowerOf == [c \in UpperSet |-> LowerCase[CHOOSE i \in DOMAIN UpperCase : UpperCase[i] = c]]

\* String.prototype.toLowerCase on one character (the 'i' flag folds case the same way)
ToLower(c) == IF c \in UpperSet THEN LowerOf[c] ELSE c

ValueOf == [c \in DigitSet |-> (CHOOSE i \in DOMAIN DigitChars : DigitChars[i] = c) - 1]

DigitValue(c) == ValueOf[c]

LowerText(s) == [i \in DOMAIN s |-> ToLower(s[i])]

\* s.slice(i - 1): the text from the i-th character (1-based) on
Drop(s, i) == IF i > Len(s) THEN <<>> ELSE SubSeq(s, i, Len(s))

\* s.startsWith(p) at the 0-based index k
MatchesAt(s, p, k) ==
    /\ k + Len(p) <= Len(s)
    /\ \A i \in 1..Len(p) : s[k + i] = p[i]

RECURSIVE TrimLeft(_)
TrimLeft(s) == IF s # <<>> /\ IsSpace(Head(s)) THEN TrimLeft(Tail(s)) ELSE s

RECURSIVE TrimRight(_)
TrimRight(s) ==
    IF s # <<>> /\ IsSpace(s[Len(s)]) THEN TrimRight(SubSeq(s, 1, Len(s) - 1)) ELSE s

\* String.prototype.trim
Trim(s) == TrimRight(TrimLeft(s))

\* the length of the longest run of digits at the head of s
RECURSIVE DigitRun(_)
DigitRun(s) == IF s # <<>> /\ IsDigit(Head(s)) THEN 1 + DigitRun(Tail(s)) ELSE 0

\* the value of a text of digits
RECURSIVE DigitsValue(_)
DigitsValue(s) ==
    IF s = <<>> THEN 0 ELSE DigitsValue(SubSeq(s, 1, Len(s) - 1)) * 10 + DigitValue(s[Len(s)])

\* the decimal digits of a natural number
RECURSIVE NatToText(_)
NatToText(n) ==
    IF n < 10 THEN <<DigitChars[n + 1]>> ELSE NatToText(n \div 10) \o <<DigitChars[(n % 10) + 1]>>

(***************************************************************************)
(* Numbers.  parseFloat and Number.prototype.toString on the numbers the   *)
(* model holds: at most three fractional digits, no exponent.              *)
(***************************************************************************)
NaN == 0 - 2000000000

\* the first three fractional digits of a text of digits, as thousandths
Frac3(f) ==
    LET p == SubSeq(f \o <<"0","0","0">>, 1, 3) IN DigitsValue(p)

ParseFloat(s) ==
    LET t    == TrimLeft(s)
        neg  == t # <<>> /\ Head(t) = "-"
        body == IF t # <<>> /\ Head(t) \in {"-", "+"} THEN Tail(t) ELSE t
        n1   == DigitRun(body)
        rest == Drop(body, n1 + 1)
        n2   == IF rest # <<>> /\ Head(rest) = "." THEN DigitRun(Tail(rest)) ELSE 0
        mag  == DigitsValue(SubSeq(body, 1, n1)) * 1000
                  + Frac3(SubSeq(body, n1 + 2, n1 + 1 + n2))
    IN  IF n1 = 0 /\ n2 = 0 THEN NaN
        ELSE IF neg THEN 0 - mag ELSE mag

\* every comparison with NaN is false
NumGt(a, b) == a # NaN /\ b # NaN /\ a > b
NumLe(a, b) == a # NaN /\ b # NaN /\ a <= b

\* a - b and a * b: NaN when an operand is NaN
NumMinus(a, b) == IF a = NaN \/ b = NaN THEN NaN ELSE a - b
NumTimes(a, b) == IF a = NaN \/ b = NaN THEN NaN ELSE a * b

\* ToNumber of a string: the empty or blank text is 0, a decimal literal its
\* value, any other text NaN
StringToNumber(s) ==
    LET t    == Trim(s)
        body == IF t # <<>> /\ Head(t) \in {"-", "+"} THEN Tail(t) ELSE t
        n1   == DigitRun(body)
        rest == Drop(body, n1 + 1)
        n2   == IF rest # <<>> /\ Head(rest) = "." THEN DigitRun(Tail(rest)) ELSE 0
    IN  IF t = <<>> THEN 0
        ELSE IF n1 + n2 > 0 /\ (rest = <<>> \/ Len(rest) = n2 + 1) THEN ParseFloat(t)
        ELSE NaN

RECURSIVE StripZeros(_)
StripZeros(s) ==
    IF s # <<>> /\ s[Len(s)] = "0" THEN StripZeros(SubSeq(s, 1, Len(s) - 1)) ELSE s

\* Number.prototype.toString
NumToString(n) ==
    IF n = NaN THEN <<"N","a","N">>
    ELSE LET a    == IF n < 0 THEN 0 - n ELSE n
             fr   == a % 1000
             frt  == StripZeros(<<DigitChars[(fr \div 100) + 1],
                                  DigitChars[((fr \div 10) % 10) + 1],
                                  DigitChars[(fr % 10) + 1]>>)
         IN  (IF n < 0 THEN <<"-">> ELSE <<>>)
               \o NatToText(a \div 1000)
               \o (IF frt = <<>> THEN <<>> ELSE <<".">> \o frt)

(***************************************************************************)
(* validators.js: REGEX_PATTERNS.                                          *)
(***************************************************************************)
\* /^\S(?:.*\S)?$/
MatchesDescription(s) ==
    /\ s # <<>>
    /\ ~IsSpace(s[1])
    /\ ~IsSpace(s[Len(s)])

\* the amount pattern with up to three decimals
MatchesAmountToThousandths(s) ==
    LET n1   == DigitRun(s)
        rest == Drop(s, n1 + 1)
    IN  /\ n1 >= 1
        /\ (n1 = 1 \/ s[1] # "0")
        /\ \/ rest = <<>>
           \/ /\ Head(rest) = "."
              /\ Len(rest) - 1 \in {1, 2, 3}
              /\ DigitRun(Tail(rest)) = Len(rest) - 1

\* /^(0|[1-9]\d*)(\.\d{1,2})?$/
MatchesAmount(s) ==
    LET n1   == DigitRun(s)
        rest == Drop(s, n1 + 1)
    IN  /\ n1 >= 1
        /\ (n1 = 1 \/ s[1] # "0")
        /\ \/ rest = <<>>
           \/ /\ Head(rest) = "."
              /\ Len(rest) - 1 \in {1, 2}
              /\ DigitRun(Tail(rest)) = Len(rest) - 1

\* /^\d{4}-(0[1-9]|1[0-2])-(0[1-9]|[12]\d|3[01])$/
MatchesDate(s) ==
    /\ Len(s) = 10
    /\ \A i \in {1, 2, 3, 4, 6, 7, 9, 10} : IsDigit(s[i])
    /\ s[5] = "-" /\ s[8] = "-"
    /\ \/ s[6] = "0" /\ s[7] # "0"
       \/ s[6] = "1" /\ s[7] \in {"0", "1", "2"}
    /\ \/ s[9] = "0" /\ s[10] # "0"
       \/ s[9] \in {"1", "2"}
       \/ s[9] = "3" /\ s[10] \in {"0", "1"}

\* the length of the longest run of word characters at the head of s
RECURSIVE WordRun(_)
WordRun(s) == IF s # <<>> /\ IsWordChar(Head(s)) THEN 1 + WordRun(Tail(s)) ELSE 0

RECURSIVE SpaceRun(_)
SpaceRun(s) == IF s # <<>> /\ IsSpace(Head(s)) THEN 1 + SpaceRun(Tail(s)) ELSE 0

\* /\b(\w+)\s+\1\b/i : a word, spaces, the same word again, at word boundaries
MatchesDuplicateWords(s) ==
    \E i \in 1..Len(s) :
        LET w  == WordRun(Drop(s, i))
            sp == SpaceRun(Drop(s, i + w))
            j  == i + w + sp
        IN  /\ (i = 1 \/ ~IsWordChar(s[i - 1]))
            /\ w >= 1
            /\ sp >= 1
            /\ MatchesAt(LowerText(s), LowerText(SubSeq(s, i, i + w - 1)), j - 1)
            /\ (j + w > Len(s) \/ ~IsWordChar(s[j + w]))

(***************************************************************************)
(* validators.js: sanitizeInput.                                           *)
(***************************************************************************)
RECURSIVE RemoveChars(_, _)
RemoveChars(s, cs) ==
    IF s = <<>> THEN <<>>
    ELSE (IF Head(s) \in cs THEN <<>> ELSE <<Head(s)>>) \o RemoveChars(Tail(s), cs)

\* s.replace(/lit/gi, '') for a literal lit in lower case
RECURSIVE RemoveLiteralCI(_, _)
RemoveLiteralCI(s, lit) ==
    IF s = <<>> THEN <<>>
    ELSE IF MatchesAt(LowerText(s), lit, 0)
         THEN RemoveLiteralCI(Drop(s, Len(lit) + 1), lit)
         ELSE <<Head(s)>> \o RemoveLiteralCI(Tail(s), lit)

\* the length of the match of /on\w+\s*=/i at the head of s, 0 for none
EventHandlerLen(s) ==
    IF Len(s) >= 4 /\ ToLower(s[1]) = "o" /\ ToLower(s[2]) = "n"
    THEN LET w  == WordRun(Drop(s, 3))
             sp == SpaceRun(Drop(s, 3 + w))
         IN  IF w >= 1 /\ 3 + w + sp <= Len(s) /\ s[3 + w + sp] = "="
             THEN 3 + w + sp
             ELSE 0
    ELSE 0

\* s.replace(/on\w+\s*=/gi, '')
RECURSIVE RemoveEventHandlers(_)
RemoveEventHandlers(s) ==
    IF s = <<>> THEN <<>>
    ELSE IF EventHandlerLen(s) > 0
         THEN RemoveEventHandlers(Drop(s, EventHandlerLen(s) + 1))
         ELSE <<Head(s)>> \o RemoveEventHandlers(Tail(s))

\* s.replace(/c/g, t) for a character c and a text t
RECURSIVE ReplaceChar(_, _, _)
ReplaceChar(s, c, t) ==
    IF s = <<>> THEN <<>>
    ELSE (IF Head(s) = c THEN t ELSE <<Head(s)>>) \o ReplaceChar(Tail(s), c, t)

\* each replace works on the value the one before it returned
sanitizeInput(input) ==
    CHOOSE out \in
        { Trim(s7) :
          s7 \in { ReplaceChar(s6, "/", <<"&","#","x","2","F",";">>) :
          s6 \in { ReplaceChar(s5, "'", <<"&","#","x","2","7",";">>) :
          s5 \in { ReplaceChar(s4, "\"", <<"&","q","u","o","t",";">>) :
          s4 \in { ReplaceChar(s3, "&", <<"&","a","m","p",";">>) :
          s3 \in { RemoveEventHandlers(s2) :
          s2 \in { RemoveLiteralCI(s1, <<"j","a","v","a","s","c","r","i","p","t",":">>) :
          s1 \in { RemoveChars(input, {"<", ">"}) } } } } } } } } : TRUE

(***************************************************************************)
(* The Date built-in: the proleptic Gregorian calendar over days since the *)
(* epoch, instants in hours.  The local clock is UTC plus a fixed offset   *)
(* of tz hours.                                                            *)
(***************************************************************************)
DaysFromCivil(y, m, d) ==
    LET yy  == IF m <= 2 THEN y - 1 ELSE y
        era == yy \div 400
        yoe == yy - era * 400
        mp  == IF m > 2 THEN m - 3 ELSE m + 9
        doy == (153 * mp + 2) \div 5 + d - 1
        doe == yoe * 365 + yoe \div 4 - yoe \div 100 + doy
    IN  era * 146097 + doe - 719468

CivilFromDays(z) ==
    LET zz  == z + 719468
        era == zz \div 146097
        doe == zz - era * 146097
        yoe == (doe - doe \div 1460 + doe \div 36524 - doe \div 146096) \div 365
        doy == doe - (365 * yoe + yoe \div 4 - yoe \div 100)
        mp  == (5 * doy + 2) \div 153
        dd  == doy - (153 * mp + 2) \div 5 + 1
        mm  == IF mp < 10 THEN mp + 3 ELSE mp - 9
    IN  [y |-> yoe + era * 400 + (IF mm <= 2 THEN 1 ELSE 0), m |-> mm, d |-> dd]

DaysInMonth(y, m) == DaysFromCivil(IF m = 12 THEN y + 1 ELSE y, IF m = 12 THEN 1 ELSE m + 1, 1)
                       - DaysFromCivil(y, m, 1)

Pad2(n) == <<DigitChars[(n \div 10) + 1], DigitChars[(n % 10) + 1]>>
Pad4(n) == Pad2(n \div 100) \o Pad2(n % 100)

\* the text YYYY-MM-DD of a calendar date
FormatDate(y, m, d) == Pad4(y) \o <<"-">> \o Pad2(m) \o <<"-">> \o Pad2(d)

\* date.toISOString().slice(0, 10): the UTC calendar date of an instant
IsoDate(t) == LET c == CivilFromDays(t \div 24) IN FormatDate(c.y, c.m, c.d)

\* new Date(text) for a text of the form YYYY-MM-DD: midnight UTC of that date;
\* a day the month does not have is no date of the ISO format (ECMAScript: NaN)
DateParse(s) ==
    LET y == DigitsValue(SubSeq(s, 1, 4))
        m == DigitsValue(SubSeq(s, 6, 7))
        d == DigitsValue(SubSeq(s, 9, 10))
    IN  IF d <= DaysInMonth(y, m) THEN DaysFromCivil(y, m, d) * 24 ELSE NaN

\* d = new Date(); d.setFullYear(d.getFullYear() - 1): the same local month, day
\* and time one year earlier (29 February rolls over to 1 March)
OneYearAgo(nowH, tzH) ==
    LET loc == nowH + tzH
        c   == CivilFromDays(loc \div 24)
    IN  (DaysFromCivil(c.y - 1, c.m, 1) + c.d - 1) * 24 + (loc % 24) - tzH

(***************************************************************************)
(* validators.js: validateField, getValidationMessage, validateForm,       *)
(* sanitizeAndValidateForm.  A message "" is an absent key.                *)
(***************************************************************************)
MaxAmount   == 999999990
LargeAmount == 10000000

RuleNames == {"description", "amount", "date", "duplicateWords"}

RegexTest(ruleName, value) ==
    CASE ruleName = "description"    -> MatchesDescription(value)
      [] ruleName = "amount"         -> MatchesAmount(value)
      [] ruleName = "date"           -> MatchesDate(value)
      [] ruleName = "duplicateWords" -> MatchesDuplicateWords(value)

getValidationMessage(ruleName) ==
    CASE ruleName = "amount" -> "Amount must be a positive number with maximum 2 decimal places."
      [] ruleName = "date" -> "Date must be in YYYY-MM-DD format."
      [] ruleName = "duplicateWords" -> "Description contains duplicate words."
      [] OTHER -> "Invalid format."

validateField(ruleName, value) ==
    IF Trim(value) = <<>>
    THEN [isValid |-> FALSE, message |-> "This field is required."]
    ELSE IF ruleName \notin RuleNames
    THEN [isValid |-> FALSE, message |-> "Unknown validation rule."]
    ELSE IF ruleName = "description" /\ ~MatchesDescription(Trim(value))
    THEN [isValid |-> FALSE, message |-> "Description cannot have leading or trailing spaces."]
    ELSE IF ~RegexTest(ruleName, value)
    THEN [isValid |-> FALSE, message |-> getValidationMessage(ruleName)]
    ELSE [isValid |-> TRUE, message |-> ""]

\* no message for a required field left empty
NoRequiredMessage(field) == ""

RequiredMessage(field) ==
    CASE field = "description" -> "Description is required."
      [] field = "amount"      -> "Amount is required."
      [] field = "date"        -> "Date is required."
      [] field = "category"    -> "Category is required."

validateForm(formData, nowH, tzH) ==
    LET required(f) == IF Trim(formData[f]) = <<>> THEN RequiredMessage(f) ELSE ""
        descR   == validateField("description", formData.description)
        errDesc == IF formData.description # <<>> /\ ~descR.isValid
                   THEN descR.message
                   ELSE required("description")
        amountR == validateField("amount", formData.amount)
        amount  == ParseFloat(formData.amount)
        errAmount ==
            IF formData.amount = <<>> THEN required("amount")
            ELSE IF ~amountR.isValid THEN amountR.message
            ELSE IF NumLe(amount, 0) THEN "Amount must be greater than 0."
            ELSE IF NumGt(amount, MaxAmount) THEN "Amount is too large."
            ELSE required("amount")
        dateR   == validateField("date", formData.date)
        errDate ==
            IF formData.date = <<>> THEN required("date")
            ELSE IF ~dateR.isValid THEN dateR.message
            ELSE IF NumGt(DateParse(formData.date), nowH) THEN "Date cannot be in the future."
            ELSE IF NumGt(OneYearAgo(nowH, tzH), DateParse(formData.date))
                 THEN "Date cannot be more than one year ago."
            ELSE required("date")
        errors == [description |-> errDesc, amount |-> errAmount,
                   date |-> errDate, category |-> required("category")]
        warnings ==
            [duplicateWords |->
                IF formData.description # <<>> /\ MatchesDuplicateWords(formData.description)
                THEN "Warning: Description contains duplicate words." ELSE "",
             largeAmount |->
                IF formData.amount # <<>> /\ NumGt(amount, LargeAmount)
                THEN "Warning: This is a large amount. Please verify." ELSE ""]
    IN  [isValid  |-> \A f \in DOMAIN errors : errors[f] = "",
         errors   |-> errors,
         warnings |-> warnings]

sanitizeAndValidateForm(formData, nowH, tzH) ==
    CHOOSE out \in
        { [data |-> sanitized, validation |-> validateForm(sanitized, nowH, tzH)] :
          sanitized \in { [id          |-> formData.id,
                           description |-> sanitizeInput(formData.description),
                           amount      |-> formData.amount,
                           category    |-> sanitizeInput(formData.category),
                           date        |-> formData.date] } } : TRUE

(***************************************************************************)
(* search.js: compileRegex.  The pattern language of the model: literal    *)
(* characters, alternation | and groups ( ); an unbalanced parenthesis is  *)
(* a syntax error.  A matcher is the ordered list of the texts the pattern *)
(* matches (the order in which a backtracking matcher tries them), its     *)
(* flags and its lastIndex.                                                *)
(***************************************************************************)
NullRegex == [isNull |-> TRUE, source |-> <<>>, alts |-> <<>>, lastIndex |-> 0]

\* every text of A followed by every text of B, A's choice first
Product(A, B) ==
    [k \in 1..(Len(A) * Len(B)) |->
        A[((k - 1) \div Len(B)) + 1] \o B[((k - 1) % Len(B)) + 1]]

RECURSIVE ParseAlt(_, _), ParseCat(_, _)
\* a concatenation of atoms from position i up to | or ) or the end
ParseCat(s, i) ==
    IF i > Len(s) \/ s[i] \in {"|", ")"}
    THEN [ok |-> TRUE, lang |-> << <<>> >>, pos |-> i]
    ELSE IF s[i] = "("
    THEN LET g == ParseAlt(s, i + 1)
         IN  IF ~g.ok \/ g.pos > Len(s) \/ s[g.pos] # ")"
             THEN [ok |-> FALSE, lang |-> <<>>, pos |-> i]
             ELSE LET r == ParseCat(s, g.pos + 1)
                  IN  [ok |-> r.ok, lang |-> Product(g.lang, r.lang), pos |-> r.pos]
    ELSE LET r == ParseCat(s, i + 1)
         IN  [ok |-> r.ok, lang |-> Product(<< <<s[i]>> >>, r.lang), pos |-> r.pos]

\* an alternation of concatenations from position i up to ) or the end
ParseAlt(s, i) ==
    LET c == ParseCat(s, i)
    IN  IF c.ok /\ c.pos <= Len(s) /\ s[c.pos] = "|"
        THEN LET r == ParseAlt(s, c.pos + 1)
             IN  [ok |-> r.ok, lang |-> c.lang \o r.lang, pos |-> r.pos]
        ELSE c

\* new RegExp(pattern, flags): ok is FALSE where the constructor throws
NewRegExp(pattern) ==
    LET p == ParseAlt(pattern, 1)
    IN  [ok |-> p.ok /\ p.pos = Len(pattern) + 1, lang |-> p.lang]

\* pattern.slice(1, -1) when the pattern starts and ends with a slash
StripDelimiters(pattern) ==
    IF pattern # <<>> /\ Head(pattern) = "/" /\ pattern[Len(pattern)] = "/"
    THEN SubSeq(pattern, 2, Len(pattern) - 1)
    ELSE pattern

\* a compile that does not turn away the pattern left empty
compileRegexOfAnyPattern(input) ==
    IF input = <<>> THEN NullRegex
    ELSE LET pattern == StripDelimiters(Trim(input))
             re      == NewRegExp(pattern)
         IN  IF ~re.ok THEN NullRegex
             ELSE [isNull |-> FALSE, source |-> pattern, alts |-> re.lang, lastIndex |-> 0]

\* compileRegex(input) with the default flags 'i', to which 'g' is added
compileRegex(input) ==
    IF input = <<>> THEN NullRegex
    ELSE LET pattern == StripDelimiters(Trim(input))
             re      == NewRegExp(pattern)
         IN  IF pattern = <<>> THEN NullRegex
             ELSE IF ~re.ok THEN NullRegex
             ELSE [isNull |-> FALSE, source |-> pattern, alts |-> re.lang, lastIndex |-> 0]

\* one alternative of the matcher matches text at the 0-based index k, case folded
AltsAt(rx, text, k) ==
    { a \in DOMAIN rx.alts : MatchesAt(LowerText(text), LowerText(rx.alts[a]), k) }

\* the pattern has a match somewhere in text
HasMatch(rx, text) == \E k \in 0..Len(text) : AltsAt(rx, text, k) # {}

Min(S) == CHOOSE x \in S : \A y \in S : x <= y

\* RegExp.prototype.test of a global regex whose lastIndex is li: the search
\* starts at li; a match leaves lastIndex at its end, a failure at 0
RegexTestFrom(rx, text, li) ==
    LET starts == { k \in li..Len(text) : AltsAt(rx, text, k) # {} }
    IN  IF li > Len(text) \/ starts = {}
        THEN [result |-> FALSE, lastIndex |-> 0]
        ELSE LET k == Min(starts)
                 a == Min(AltsAt(rx, text, k))
             IN  [result |-> TRUE, lastIndex |-> k + Len(rx.alts[a])]

\* test(f1) || test(f2) || ... on one matcher, from lastIndex li
RECURSIVE TestAny(_, _, _)
TestAny(rx, fields, li) ==
    IF fields = <<>> THEN [result |-> FALSE, lastIndex |-> li]
    ELSE LET t == RegexTestFrom(rx, Head(fields), li)
         IN  IF t.result THEN t ELSE TestAny(rx, Tail(fields), t.lastIndex)

RECURSIVE SearchFrom(_, _, _)
SearchFrom(recs, rx, li) ==
    IF recs = <<>> THEN [kept |-> <<>>, lastIndex |-> li]
    ELSE LET r == Head(recs)
             t == TestAny(rx, <<r.description, r.category, NumToString(r.amount), r.date>>, li)
             rest == SearchFrom(Tail(recs), rx, t.lastIndex)
         IN  [kept |-> (IF t.result THEN <<r>> ELSE <<>>) \o rest.kept,
              lastIndex |-> rest.lastIndex]

\* searchRecords(records, searchRegex): the records kept and the matcher afterwards
searchRecords(recs, rx) ==
    IF rx.isNull THEN [kept |-> recs, regex |-> rx]
    ELSE LET r == SearchFrom(recs, rx, rx.lastIndex)
         IN  [kept |-> r.kept, regex |-> [rx EXCEPT !.lastIndex = r.lastIndex]]

\* highlightMatches(text, regex), its effect on the matcher: String.prototype.replace
\* with a global regex leaves lastIndex at 0
highlightMatches(text, rx) ==
    IF rx.isNull \/ text = <<>> THEN rx ELSE [rx EXCEPT !.lastIndex = 0]

\* UI.renderRecords(records, searchRegex, sortConfig), its effect on the matcher
RECURSIVE renderRecords(_, _)
renderRecords(recs, rx) ==
    IF recs = <<>> THEN rx
    ELSE renderRecords(Tail(recs),
             highlightMatches(Head(recs).category, highlightMatches(Head(recs).description, rx)))

\* refreshRecordsView(): the records shown and the matcher afterwards
refreshRecordsView(recs, rx) ==
    LET filtered == IF rx.isNull THEN [kept |-> recs, regex |-> rx] ELSE searchRecords(recs, rx)
    IN  [view |-> filtered.kept, regex |-> renderRecords(filtered.kept, filtered.regex)]

\* the marker highlightMatches wraps a match in
MarkOpen  == <<"<","m","a","r","k",">">>
MarkClose == <<"<","/","m","a","r","k",">">>

\* the five replace calls with the ampersand replaced last
escapedTextAmpersandLast(text) ==
    ReplaceChar(ReplaceChar(ReplaceChar(ReplaceChar(ReplaceChar(text,
        "<", <<"&","l","t",";">>),
        ">", <<"&","g","t",";">>),
        "\"", <<"&","q","u","o","t",";">>),
        "'", <<"&","#","x","2","7",";">>),
        "&", <<"&","a","m","p",";">>)

\* escapedText of highlightMatches: the five replace calls, in their order
escapedText(text) ==
    ReplaceChar(ReplaceChar(ReplaceChar(ReplaceChar(ReplaceChar(text,
        "&", <<"&","a","m","p",";">>),
        "<", <<"&","l","t",";">>),
        ">", <<"&","g","t",";">>),
        "\"", <<"&","q","u","o","t",";">>),
        "'", <<"&","#","x","2","7",";">>)

\* text.replace(regex, match => `<mark>${match}</mark>`) with a global regex: the
\* matches are found from lastIndex 0 on, an empty match moving lastIndex on by one;
\* src is the end of the last match, li the index the next search starts at
RECURSIVE ReplaceFrom(_, _, _, _)
MarkedMatch(text, rx, src, p, len) ==
    SubSeq(text, src + 1, p) \o MarkOpen \o SubSeq(text, p + 1, p + len) \o MarkClose
        \o ReplaceFrom(text, rx, p + len, IF len = 0 THEN p + 1 ELSE p + len)

ReplaceFrom(text, rx, src, li) ==
    LET starts == { k \in li..Len(text) : AltsAt(rx, text, k) # {} }
    IN  IF starts = {} THEN SubSeq(text, src + 1, Len(text))
        ELSE MarkedMatch(text, rx, src, Min(starts),
                         Len(rx.alts[Min(AltsAt(rx, text, Min(starts)))]))

\* highlightMatches(text, regex), the value it returns; text is a value [t, s] of
\* type t (a string with the text s, or a value that is no string)
highlightMatchesText(text, rx) ==
    IF rx.isNull \/ text.t # "string" \/ text.s = <<>> THEN text
    ELSE [t |-> "string", s |-> ReplaceFrom(escapedText(text.s), rx, 0, 0)]

\* UI.renderRecords(records, searchRegex, sortConfig), the description and the
\* category cell it writes into the row of a record
renderedCells(record, rx) ==
    [description |-> highlightMatchesText([t |-> "string", s |-> record.description], rx).s,
     category    |-> highlightMatchesText([t |-> "string", s |-> record.category], rx).s]

\* compileRegex(input) and validateRegexPattern(pattern) of a value [t, s]: a value
\* that is no string is turned away by the typeof test
compileRegexValue(input) ==
    IF input.t # "string" THEN NullRegex ELSE compileRegex(input.s)

(***************************************************************************)
(* Records.  A record of the store has the fields id, description (text),  *)
(* amount (number), category, date (texts), createdAt, updatedAt           *)
(* (instants).  An id is a natural number naming the id string; Undef      *)
(* names the values that are falsy (undefined, the empty string).          *)
(***************************************************************************)
Undef == 0

\* null, as the value of a return that is a record otherwise
NoRecord == [id |-> Undef, description |-> <<>>, amount |-> 0, category |-> <<>>,
             date |-> <<>>, dateType |-> "string", createdAt |-> Undef, updatedAt |-> Undef]

Ids(recs) == { recs[i].id : i \in DOMAIN recs }

\* Array.prototype.findIndex(r => r.id === id), 1-based; 0 for the -1 of "none"
FindIndex(recs, id) ==
    IF id \in Ids(recs) THEN Min({ i \in DOMAIN recs : recs[i].id = id }) ELSE 0

\* records.filter(r => r.id !== id)
RECURSIVE FilterOutId(_, _)
FilterOutId(recs, id) ==
    IF recs = <<>> THEN <<>>
    ELSE (IF Head(recs).id # id THEN <<Head(recs)>> ELSE <<>>) \o FilterOutId(Tail(recs), id)

(***************************************************************************)
(* storage.js: saveRecords, loadRecords.  The stored item is the JSON text *)
(* of the collection: a list of objects whose amount is the number's       *)
(* decimal text and whose description is a string token.  A JSON value     *)
(* [t, s] has a type t and a text s.                                       *)
(***************************************************************************)
JsonStringifyRecord(r) ==
    [id |-> r.id,
     description |-> [t |-> "string", s |-> r.description],
     amount |-> [t |-> "number", s |-> NumToString(r.amount)],
     category |-> r.category, date |-> r.date, dateType |-> r.dateType,
     createdAt |-> r.createdAt, updatedAt |-> r.updatedAt]

JsonStringify(recs) == [i \in DOMAIN recs |-> JsonStringifyRecord(recs[i])]

JsonParseRecord(e) ==
    [id |-> e.id,
     description |-> e.description.s,
     amount |-> ParseFloat(e.amount.s),
     category |-> e.category, date |-> e.date, dateType |-> e.dateType,
     createdAt |-> e.createdAt, updatedAt |-> e.updatedAt]

JsonParse(elems) == [i \in DOMAIN elems |-> JsonParseRecord(elems[i])]

\* saveRecords(records): setItem succeeds (ok) or throws, e.g. when the quota is
\* exceeded; the exception is caught and false is returned
saveRecords(storage, recs, ok) ==
    [storage |-> IF ok THEN JsonStringify(recs) ELSE storage,
     result  |-> IF ok THEN "ok" ELSE "failed"]

\* loadRecords(): an absent item loads as the empty collection
loadRecords(storage) == JsonParse(storage)

\* the export with the records last first
exportDataReversed(recs) ==
    [kind |-> "array",
     elems |-> [i \in DOMAIN recs |->
                   JsonStringifyRecord(recs[Len(recs) + 1 - i]) @@ [isNull |-> FALSE]]]

\* exportData(records): JSON.stringify(records, null, 2), the text of an array whose
\* elements are the records as objects
exportData(recs) ==
    [kind |-> "array",
     elems |-> [i \in DOMAIN recs |-> JsonStringifyRecord(recs[i]) @@ [isNull |-> FALSE]]]

\* DEFAULT_SETTINGS; the numbers in thousandths
DEFAULT_SETTINGS ==
    [baseCurrency |-> <<"$">>, budgetCap |-> 1000000,
     alt1Symbol |-> <<"€">>, alt1Rate |-> 930,
     alt2Symbol |-> <<"£">>, alt2Rate |-> 800,
     theme |-> "light"]

\* { ...a, ...b }: the fields of b over those of a
Merge(a, b) ==
    [k \in DOMAIN a \cup DOMAIN b |-> IF k \in DOMAIN b THEN b[k] ELSE a[k]]

\* saveSettings(settings): the item is the JSON of the object, which parses back
\* to the same fields
saveSettings(item, s, ok) == IF ok THEN <<s>> ELSE item

\* loadSettings(): the defaults under the fields stored
loadSettings(item) ==
    IF item = <<>> THEN DEFAULT_SETTINGS ELSE Merge(DEFAULT_SETTINGS, item[1])

\* updateSettings(newSettings): the settings and the item afterwards
updateSettings(current, item, newSettings, ok) ==
    [settings |-> Merge(current, newSettings),
     item     |-> saveSettings(item, Merge(current, newSettings), ok)]

(***************************************************************************)
(* state.js: the record store.  A store state st has the fields records,   *)
(* currentSort and storage.  An operation yields the store state after it, *)
(* the value it returns (ret), what its saveRecords call returned (saved,  *)
(* "none" without a call) and the contents it left in the array object     *)
(* that held the collection before the call (old).                         *)
(***************************************************************************)
DefaultSort == [key |-> "date", direction |-> "desc"]

\* the collation order of String.prototype.localeCompare on the characters of the
\* model: white space, punctuation, symbols, digits, letters
CollationOrder ==
    <<" ", "_", "-", ",", ";", ":", "!", "?", ".", "'", "\"", "(", ")", "@", "*", "/",
      "&", "#", "%", "+", "<", "=", ">", "|">> \o DigitChars \o LowerCase

RankOf == [c \in Range(CollationOrder) |->
              CHOOSE i \in DOMAIN CollationOrder : CollationOrder[i] = c]

CharRank(c) == IF ToLower(c) \in DOMAIN RankOf THEN RankOf[ToLower(c)] ELSE 0

\* the sign of a.localeCompare(b): by letters first, then lower case before upper
RECURSIVE PrimaryCompare(_, _)
PrimaryCompare(a, b) ==
    IF a = <<>> /\ b = <<>> THEN 0
    ELSE IF a = <<>> THEN 0 - 1
    ELSE IF b = <<>> THEN 1
    ELSE IF CharRank(Head(a)) < CharRank(Head(b)) THEN 0 - 1
    ELSE IF CharRank(Head(a)) > CharRank(Head(b)) THEN 1
    ELSE PrimaryCompare(Tail(a), Tail(b))

RECURSIVE CaseCompare(_, _)
CaseCompare(a, b) ==
    IF a = <<>> \/ b = <<>> THEN 0
    ELSE IF Head(a) = Head(b) THEN CaseCompare(Tail(a), Tail(b))
    ELSE IF Head(a) = ToLower(Head(a)) THEN 0 - 1 ELSE 1

LocaleCompare(a, b) ==
    IF PrimaryCompare(a, b) # 0 THEN PrimaryCompare(a, b) ELSE CaseCompare(a, b)

\* typeof r[key], Number(r[key]) and String(r[key]) for a record r of the store
TypeOf(r, key) ==
    IF key = "amount" THEN "number" ELSE IF key = "date" THEN r.dateType ELSE "string"

NumberOf(r, key) ==
    IF key = "amount" THEN r.amount
    ELSE IF key = "date" /\ r.dateType = "number" THEN ParseFloat(r.date)
    ELSE StringToNumber(r[key])

StringOf(r, key) == IF key = "amount" THEN NumToString(r.amount) ELSE r[key]

\* the comparator of sortRecords
Comparator(a, b, key, direction) ==
    LET comparison == IF TypeOf(a, key) = "number"
                      THEN NumMinus(NumberOf(a, key), NumberOf(b, key))
                      ELSE LocaleCompare(StringOf(a, key), StringOf(b, key))
    IN  IF direction = "asc" THEN comparison ELSE NumTimes(comparison, 0 - 1)

\* SortCompare of Array.prototype.sort: a comparator result of NaN counts as +0
NaNAsZero(v) == IF v = NaN THEN 0 ELSE v

SortCompare(a, b, key, direction) == NaNAsZero(Comparator(a, b, key, direction))

\* a sort that is not stable: x goes before the elements it compares equal to
InsertAfterLess(done, x, key, direction) ==
    LET k == Cardinality({ i \in DOMAIN done : SortCompare(done[i], x, key, direction) < 0 })
    IN  SubSeq(done, 1, k) \o <<x>> \o SubSeq(done, k + 1, Len(done))

\* Array.prototype.sort is stable: x goes after the elements that do not compare
\* greater than it.  (Where the comparator is not consistent, as between a number
\* and a text that is no number, the order is implementation-defined; this is the
\* order of an insertion sort.)
InsertAfterLessOrEqual(done, x, key, direction) ==
    LET k == Cardinality({ i \in DOMAIN done : SortCompare(done[i], x, key, direction) <= 0 })
    IN  SubSeq(done, 1, k) \o <<x>> \o SubSeq(done, k + 1, Len(done))

RECURSIVE StableSort(_, _, _)
StableSort(recs, key, direction) ==
    IF recs = <<>> THEN <<>>
    ELSE InsertAfterLessOrEqual(StableSort(SubSeq(recs, 1, Len(recs) - 1), key, direction),
                                recs[Len(recs)], key, direction)

\* sortRecords(recordsArray, key, direction): the sorted copy it returns and the
\* value it assigns to currentSort
sortRecords(recordsArray, key, direction) ==
    [sorted      |-> StableSort(recordsArray, key, direction),
     currentSort |-> [key |-> key, direction |-> direction]]

initializeState(st, initialRecords) ==
    [records |-> initialRecords, currentSort |-> st.currentSort, storage |-> st.storage,
     ret |-> NoRecord, saved |-> "none", old |-> st.records]

\* saveRecords called before the collection is reassigned
SavedBeforeAssignment(st, s, returned, oldArray, saveOk) ==
    [records |-> s.sorted, currentSort |-> s.currentSort,
     storage |-> saveRecords(st.storage, oldArray, saveOk).storage,
     ret |-> returned, saved |-> saveRecords(st.storage, oldArray, saveOk).result,
     old |-> oldArray]

\* the state an operation leaves when it assigns s.sorted to records and calls
\* saveRecords(records), and the state it leaves when it returns null at once
Saved(st, s, returned, oldArray, saveOk) ==
    [records |-> s.sorted, currentSort |-> s.currentSort,
     storage |-> saveRecords(st.storage, s.sorted, saveOk).storage,
     ret |-> returned, saved |-> saveRecords(st.storage, s.sorted, saveOk).result,
     old |-> oldArray]

NotFound(st) ==
    [records |-> st.records, currentSort |-> st.currentSort, storage |-> st.storage,
     ret |-> NoRecord, saved |-> "none", old |-> st.records]

\* getRecords(): a copy; live says whether the array returned is the collection itself
getRecords(st) == [value |-> st.records, live |-> FALSE]

addRecord(st, recordData, newId, nowT, saveOk) ==
    LET newRecord == [id |-> newId,
                      description |-> Trim(recordData.description),
                      amount |-> ParseFloat(recordData.amount),
                      category |-> recordData.category,
                      date |-> recordData.date,
                      dateType |-> "string",
                      createdAt |-> nowT,
                      updatedAt |-> nowT]
        unshifted == <<newRecord>> \o st.records
        s  == sortRecords(unshifted, st.currentSort.key, st.currentSort.direction)
    IN  Saved(st, s, newRecord, unshifted, saveOk)

\* an update that builds the record anew, as addRecord does
updateRecordRestamped(st, id, recordData, nowT, saveOk) ==
    LET index == FindIndex(st.records, id)
        updatedRecord == [st.records[index] EXCEPT
                             !.description = Trim(recordData.description),
                             !.amount = ParseFloat(recordData.amount),
                             !.category = recordData.category,
                             !.date = recordData.date,
                             !.dateType = "string",
                             !.createdAt = nowT,
                             !.updatedAt = nowT]
        assigned == [st.records EXCEPT ![index] = updatedRecord]
        s  == sortRecords(assigned, st.currentSort.key, st.currentSort.direction)
    IN  IF index = 0
        THEN NotFound(st)
        ELSE Saved(st, s, updatedRecord, assigned, saveOk)

updateRecord(st, id, recordData, nowT, saveOk) ==
    LET index == FindIndex(st.records, id)
        updatedRecord == [st.records[index] EXCEPT
                             !.description = Trim(recordData.description),
                             !.amount = ParseFloat(recordData.amount),
                             !.category = recordData.category,
                             !.date = recordData.date,
                             !.dateType = "string",
                             !.updatedAt = nowT]
        assigned == [st.records EXCEPT ![index] = updatedRecord]
        s  == sortRecords(assigned, st.currentSort.key, st.currentSort.direction)
    IN  IF index = 0
        THEN NotFound(st)
        ELSE Saved(st, s, updatedRecord, assigned, saveOk)

\* a delete without the early return
deleteRecordUnchecked(st, id, saveOk) ==
    Saved(st, [sorted |-> FilterOutId(st.records, id), currentSort |-> st.currentSort],
          IF FindIndex(st.records, id) = 0 THEN NoRecord
          ELSE st.records[FindIndex(st.records, id)],
          st.records, saveOk)

deleteRecord(st, id, saveOk) ==
    LET recordIndex == FindIndex(st.records, id)
        remaining == [sorted |-> FilterOutId(st.records, id), currentSort |-> st.currentSort]
    IN  IF recordIndex = 0
        THEN NotFound(st)
        ELSE Saved(st, remaining, st.records[recordIndex], st.records, saveOk)

setSort(st, key, direction, saveOk) ==
    Saved(st, sortRecords(st.records, key, direction), NoRecord, st.records, saveOk)

\* findRecordById(id): the first record with the id, or null
findRecordById(st, id) ==
    IF FindIndex(st.records, id) = 0 THEN NoRecord ELSE st.records[FindIndex(st.records, id)]

\* the three tests of filterRecords on one matcher, from lastIndex li
RECURSIVE FilterFrom(_, _, _)
FilterFrom(recs, rx, li) ==
    IF recs = <<>> THEN <<>>
    ELSE LET r == Head(recs)
             t == TestAny(rx, <<r.description, r.category, NumToString(r.amount)>>, li)
         IN  (IF t.result THEN <<r>> ELSE <<>>) \o FilterFrom(Tail(recs), rx, t.lastIndex)

\* filterRecords(searchRegex): without a matcher the collection itself is returned
filterRecords(st, rx) ==
    IF rx.isNull THEN [value |-> st.records, live |-> TRUE]
    ELSE [value |-> FilterFrom(st.records, rx, rx.lastIndex), live |-> FALSE]

\* a property name that is an array index ("0", "7", "12"): Object.keys yields
\* such names first, in ascending order, and the other names in insertion order
IsArrayIndex(name) ==
    /\ name # <<>>
    /\ DigitRun(name) = Len(name)
    /\ (Len(name) = 1 \/ name[1] # "0")

\* the index of the first record of a category, at which the reduce inserts its key
FirstOf(recs, category) == Min({ i \in DOMAIN recs : recs[i].category = category })

KeyRank(recs, names, name) ==
    IF IsArrayIndex(name)
    THEN Cardinality({ n \in names : IsArrayIndex(n) /\ DigitsValue(n) < DigitsValue(name) })
    ELSE Cardinality({ n \in names : IsArrayIndex(n) })
           + Cardinality({ n \in names : ~IsArrayIndex(n)
                                           /\ FirstOf(recs, n) < FirstOf(recs, name) })

\* Object.keys(categoryCounts), which is Object.keys(categoryAmounts) too
ObjectKeys(recs, names) ==
    [k \in 1..Cardinality(names) |-> CHOOSE n \in names : KeyRank(recs, names, n) = k - 1]

\* records.reduce((sum, r) => sum + r.amount, 0) over the records of a category;
\* the sums are exact in the model
RECURSIVE SumAmounts(_)
SumAmounts(recs) == IF recs = <<>> THEN 0 ELSE Head(recs).amount + SumAmounts(Tail(recs))

\* keys.reduce((a, b) => value[a] > value[b] ? a : b)
RECURSIVE ReduceTop(_, _)
ReduceTop(keys, value) ==
    IF Len(keys) = 1 THEN keys[1]
    ELSE LET a == ReduceTop(SubSeq(keys, 1, Len(keys) - 1), value)
             b == keys[Len(keys)]
         IN  IF value[a] > value[b] THEN a ELSE b

NotApplicable == <<"N","/","A">>

StatsOf(recs, keys, categoryCounts, categoryAmounts) ==
    [totalRecords        |-> Len(recs),
     totalSpent          |-> SumAmounts(recs),
     topCategoryByCount  |-> IF Len(keys) > 0 THEN ReduceTop(keys, categoryCounts)
                             ELSE NotApplicable,
     topCategoryByAmount |-> IF Len(keys) > 0 THEN ReduceTop(keys, categoryAmounts)
                             ELSE NotApplicable,
     categoryCounts      |-> categoryCounts,
     categoryAmounts     |-> categoryAmounts]

\* getDashboardStats(), without avgSpent
getDashboardStats(st) ==
    LET names == { st.records[i].category : i \in DOMAIN st.records }
    IN  StatsOf(st.records, ObjectKeys(st.records, names),
                [c \in names |->
                    Cardinality({ i \in DOMAIN st.records : st.records[i].category = c })],
                [c \in names |->
                    SumAmounts(SelectSeq(st.records, LAMBDA r : r.category = c))])

\* the month names of toLocaleDateString('en-US', { month: 'short' })
MonthShort ==
    << <<"J","a","n">>, <<"F","e","b">>, <<"M","a","r">>, <<"A","p","r">>,
       <<"M","a","y">>, <<"J","u","n">>, <<"J","u","l">>, <<"A","u","g">>,
       <<"S","e","p">>, <<"O","c","t">>, <<"N","o","v">>, <<"D","e","c">> >>

\* d.toLocaleDateString('en-US', { day: 'numeric', month: 'short' }) of the local
\* calendar day of number day: "Mar 10"
ShortDate(day) ==
    LET c == CivilFromDays(day) IN MonthShort[c.m] \o <<" ">> \o NatToText(c.d)

\* the bucket the loop makes for i = 7 - k: d is the local midnight of the local
\* day i days before today, its key the UTC date of that instant, its label the
\* local date
TrendBucket(recs, localDay, tzH, k) ==
    [key    |-> IsoDate((localDay - (7 - k)) * 24 - tzH),
     label  |-> ShortDate(localDay - (7 - k)),
     amount |-> SumAmounts(SelectSeq(recs,
                    LAMBDA r : r.date = IsoDate((localDay - (7 - k)) * 24 - tzH)))]

\* getSevenDayTrend() at the instant nowH of a clock tzH hours ahead of UTC
getSevenDayTrend(st, nowH, tzH) ==
    [labels  |-> [k \in 1..8 |-> TrendBucket(st.records, (nowH + tzH) \div 24, tzH, k).label],
     amounts |-> [k \in 1..8 |-> TrendBucket(st.records, (nowH + tzH) \div 24, tzH, k).amount]]

(***************************************************************************)
(* storage.js: importData.  An import text is blank, not JSON ("garbage"), *)
(* the JSON of a value that is no array ("object") or of an array; the     *)
(* elements of the array are objects (fields as in the stored item, an     *)
(* absent field having type "undefined") or null.                          *)
(***************************************************************************)
\* the check without its test of the amount
StructurallyValidButAmount(e) ==
    /\ e.id # Undef
    /\ e.description.t = "string"
    /\ e.date # <<>>
    /\ e.category # <<>>

StructurallyValid(e) ==
    /\ e.id # Undef
    /\ e.description.t = "string"
    /\ e.amount.t = "number"
    /\ e.date # <<>>
    /\ e.category # <<>>

importData(text) ==
    LET bad == { i \in DOMAIN text.elems :
                   text.elems[i].isNull \/ ~StructurallyValid(text.elems[i]) }
    IN  IF text.kind \in {"blank", "garbage"}
        THEN [success |-> FALSE, data |-> <<>>, message |-> "SyntaxError"]
        ELSE IF text.kind # "array"
        THEN [success |-> FALSE, data |-> <<>>, message |-> "Data must be an array."]
        ELSE IF text.elems = <<>>
        THEN [success |-> TRUE, data |-> <<>>,
              message |-> "Import successful but no records were found."]
        ELSE IF bad = {}
        THEN [success |-> TRUE, data |-> JsonParse(text.elems),
              message |-> "Successfully imported records."]
        ELSE IF text.elems[Min(bad)].isNull
        THEN [success |-> FALSE, data |-> <<>>, message |-> "TypeError"]
        ELSE [success |-> FALSE, data |-> <<>>,
              message |-> "JSON structure is invalid or missing required fields."]

\* validateRegexPattern(pattern)
validateRegexPattern(pattern) ==
    IF pattern = <<>>
    THEN [isValid |-> FALSE, message |-> "Pattern is required."]
    ELSE IF NewRegExp(StripDelimiters(Trim(pattern))).ok
    THEN [isValid |-> TRUE, message |-> "Valid regex pattern."]
    ELSE [isValid |-> FALSE, message |-> "Invalid regex"]

validateRegexPatternValue(pattern) ==
    IF pattern.t # "string"
    THEN [isValid |-> FALSE, message |-> "Pattern is required."]
    ELSE validateRegexPattern(pattern.s)

(***************************************************************************)
(* The inputs of the model.                                                *)
(***************************************************************************)
\* the clock at the start: 2024-03-10, 12:00 UTC
InitNow == DaysFromCivil(2024, 3, 10) * 24 + 12
TzOffsets == {0}

Today     == IsoDate(InitNow)
Yesterday == IsoDate(InitNow - 24)
Tomorrow  == IsoDate(InitNow + 24)

Food == <<"F","o","o","d">>
Fees == <<"F","e","e","s">>
SortKeys == {"date", "amount", "description"}

Fields(d, a, c, t) == [description |-> d, amount |-> a, category |-> c, date |-> t]
NoData == Fields(<<>>, <<>>, <<>>, <<>>)

\* what the user may have typed into the form when it is submitted
FormInputs ==
    { Fields(<<"t","e","a">>, <<"5">>, Food, Today),
      Fields(<<" ","t","e","a"," ">>, <<"1","2",".","5">>, Fees, Yesterday),
      Fields(<<"<",">">>, <<"5">>, Food, Today),
      Fields(<<"t","e","a">>, <<"0">>, Food, Today),
      Fields(<<"a","t">>, <<"5">>, <<>>, Today),
      Fields(<<"a","t">>, <<"1","2",".","5">>, Fees, Tomorrow) }

\* further texts the user may have typed into the form: duplicate words, a large
\* amount, reserved characters
MoreFormInputs ==
    { Fields(<<"t","e","a"," ","t","e","a">>, <<"5">>, Food, Today),
      Fields(<<"t","e","a">>, <<"1","0","0","0","0",".","5">>, Food, Today),
      Fields(<<"a","&","b","/","'","c","\"">>, <<"5">>, Fees, Today) }

\* what the user may have typed into the search box
SearchInputs ==
    { <<>>, <<" ">>, <<"t","e","a">>, <<"/","a","t","|","5","/">>, <<"(","a">>, <<"/","/">> }

ImportIds == {1, 2}
FirstNewId == Cardinality(ImportIds) + 1

JStr(s) == [t |-> "string", s |-> s]
JNum(s) == [t |-> "number", s |-> s]
JAbsent == [t |-> "undefined", s |-> <<>>]
JObject(id, d, a, c, t) ==
    [isNull |-> FALSE, id |-> id, description |-> d, amount |-> a, category |-> c,
     date |-> t, dateType |-> "string", createdAt |-> Undef, updatedAt |-> Undef]
JNull == [JObject(Undef, JAbsent, JAbsent, <<>>, <<>>) EXCEPT !.isNull = TRUE]

\* the elements an imported array is made of
ElemTea     == JObject(1, JStr(<<"t","e","a">>), JNum(<<"5">>), Food, Today)
ElemTwin    == JObject(1, JStr(<<"a","t">>), JNum(<<"1","2",".","5">>), Fees, Yesterday)
ElemAt      == JObject(2, JStr(<<"a","t">>), JNum(<<"1","2",".","5">>), Fees, Yesterday)
ElemBad     == JObject(2, JStr(<<" ","x">>), JNum(<<"-","5">>), Food, <<"s","o","o","n">>)
ElemEmpty   == JObject(2, JAbsent, JAbsent, <<>>, <<>>)
ElemNoId    == JObject(Undef, JStr(<<"a","t">>), JNum(<<"5">>), Food, Today)
ElemTextual == JObject(2, JStr(<<"a","t">>), JStr(<<"5">>), Food, Today)
ElemNumDate == [JObject(2, JStr(<<"a","t">>), JNum(<<"5">>), Food, <<"7">>)
                   EXCEPT !.dateType = "number"]

Text(kind, elems) == [kind |-> kind, elems |-> elems]

\* what the import textarea may hold when Import is clicked
ImportTexts ==
    { Text("blank", <<>>), Text("garbage", <<>>), Text("object", <<>>),
      Text("array", <<>>),
      Text("array", <<ElemTea>>),
      Text("array", <<ElemAt, ElemTea>>),
      Text("array", <<ElemTea, ElemTwin>>),
      Text("array", <<ElemBad>>),
      Text("array", <<ElemTea, ElemEmpty>>),
      Text("array", <<ElemNoId>>),
      Text("array", <<ElemTextual, ElemTea>>),
      Text("array", <<ElemNumDate>>),
      Text("array", <<ElemTea, JNull>>) }

\* an element whose description has markup in it, and the import texts with it
ElemMarkup  == JObject(2, JStr(<<"<","a","t",">">>), JNum(<<"5">>), Fees, Today)

MarkupTexts ==
    { Text("array", <<ElemMarkup>>), Text("array", <<ElemTea, ElemMarkup>>) }

\* what the user may have typed into the settings form
SettingsInputs ==
    [baseCurrency : { <<" ">>, <<"R">> },
     budgetCap    : { <<>>, <<"2","5","0">>, <<"-","5">> },
     alt1Symbol   : { <<>> },
     alt1Rate     : { <<>>, <<"0">>, <<"1",".","5">>, <<"-","2">> },
     alt2Symbol   : { <<"K","S","h">> },
     alt2Rate     : { <<"0",".","8">>, <<"-","1">> }]

(***************************************************************************)
(* What the handlers compute from their inputs alone, tabulated.           *)
(***************************************************************************)
ClockRange == InitNow..(InitNow + MaxTicks)
IdRange    == Undef..(FirstNewId + MaxNewIds)

FormData(id, input) ==
    [id |-> id, description |-> input.description, amount |-> input.amount,
     category |-> input.category, date |-> input.date]

Submitted ==
    [id \in IdRange, input \in FormInputs, t \in ClockRange, z \in TzOffsets |->
        sanitizeAndValidateForm(FormData(id, input), t, z)]

Imported == [text \in ImportTexts \cup MarkupTexts |-> importData(text)]

Validated == [input \in SearchInputs |-> validateRegexPattern(input)]

Compiled == [input \in SearchInputs |-> compileRegex(input)]

(***************************************************************************)
(* The state.                                                              *)
(***************************************************************************)
VARIABLES
    records,            \* state.js: the collection
    currentSort,        \* state.js: the active sort order
    storage,            \* localStorage['sft:data'], as a list of JSON objects
    currentSearchRegex, \* app.js: the matcher of the search box
    regexError,         \* the message shown under the search box
    view,               \* the records the record view shows
    formRecordId,       \* the hidden record-id field of the form
    deleteCallback,     \* the id the confirmation modal is open for, or Undef
    now,                \* the clock
    tz,                 \* the offset of the local clock
    nextId,             \* the next id crypto.randomUUID yields
    faults,             \* the writes localStorage will still refuse
    ret,                \* the last operation: its name, its id argument, whether it
                        \* returned a value, what saveRecords returned, the message shown
    call,               \* a function called on its own: its arguments, the functions
                        \* applied so far (done) and what each returned
    settings,           \* state.js: the settings
    settingsStorage     \* localStorage['sft:settings']: empty, or the object stored

vars == <<records, currentSort, storage, currentSearchRegex, regexError, view,
          formRecordId, deleteCallback, now, tz, nextId, faults, ret, call, settings, settingsStorage>>

\* no function is called on its own
NoCall == [module |-> "none", done |-> {}]

\* the variables of the page and the store
page == <<records, currentSort, storage, currentSearchRegex, regexError, view,
          formRecordId, deleteCallback, now, tz, nextId, faults, ret,
          settings, settingsStorage>>

St == [records |-> records, currentSort |-> currentSort, storage |-> storage]

Ret(op, id, ok, saved, msg) ==
    [op |-> op, id |-> id, ok |-> ok, saved |-> saved, msg |-> msg]

\* the store takes the state an operation yields; a refused write is used up
Apply(r) ==
    /\ records' = r.records
    /\ currentSort' = r.currentSort
    /\ storage' = r.storage
    /\ faults' = IF r.saved = "failed" THEN faults - 1 ELSE faults

\* setItem may throw
MayFail(saveOk) == saveOk \/ faults > 0

\* refreshUI() / refreshRecordsView() on the collection recs
Refresh(recs) ==
    \E v \in { refreshRecordsView(recs, currentSearchRegex) } :
        /\ view' = v.view
        /\ currentSearchRegex' = v.regex

Init ==
    /\ records = loadRecords(<<>>)
    /\ currentSort = DefaultSort
    /\ storage = <<>>
    /\ currentSearchRegex = NullRegex
    /\ regexError = ""
    /\ view = loadRecords(<<>>)
    /\ formRecordId = Undef
    /\ deleteCallback = Undef
    /\ now = InitNow
    /\ tz \in TzOffsets
    /\ nextId = FirstNewId
    /\ faults = 0
    /\ ret = Ret("init", Undef, TRUE, "none", "")
    /\ call = NoCall
    /\ settings = loadSettings(<<>>)
    /\ settingsStorage = <<>>

(***************************************************************************)
(* app.js: the handlers.  While the confirmation modal is open the page    *)
(* behind it takes no input.                                               *)
(***************************************************************************)
\* a page reload: new FinanceTrackerApp(), with state.js evaluated anew
Reload ==
    /\ records' = loadRecords(storage)
    /\ currentSort' = DefaultSort
    /\ currentSearchRegex' = NullRegex
    /\ regexError' = ""
    /\ view' = loadRecords(storage)
    /\ formRecordId' = Undef
    /\ deleteCallback' = Undef
    /\ ret' = Ret("init", Undef, TRUE, "none", "")
    /\ settings' = loadSettings(settingsStorage)
    /\ UNCHANGED <<storage, now, tz, nextId, faults, call, settingsStorage>>

\* handleFormSubmit() when sanitizeAndValidateForm returns sv
HandleFormSubmitOf(sv, saveOk) ==
    /\ deleteCallback = Undef
    /\ IF ~sv.validation.isValid
       THEN /\ ret' = Ret("handleFormSubmit", Undef, FALSE, "none",
                          "Form validation failed. Please correct the errors.")
            /\ UNCHANGED <<records, currentSort, storage, faults,
                           currentSearchRegex, view, nextId>>
       ELSE IF sv.data.id # Undef
       THEN \E upd \in { updateRecord(St, sv.data.id, sv.data, now, saveOk) } :
            /\ Apply(upd)
            /\ Refresh(upd.records)
            /\ ret' = Ret("updateRecord", sv.data.id, upd.ret # NoRecord, upd.saved,
                          IF upd.ret # NoRecord THEN "Transaction updated." ELSE "")
            /\ UNCHANGED nextId
       ELSE /\ Len(records) < MaxRecords
            /\ nextId < FirstNewId + MaxNewIds
            /\ \E add \in { addRecord(St, sv.data, nextId, now, saveOk) } :
                /\ Apply(add)
                /\ Refresh(add.records)
                /\ ret' = Ret("addRecord", add.ret.id, TRUE, add.saved,
                              "New transaction added.")
            /\ nextId' = nextId + 1
    /\ UNCHANGED <<regexError, formRecordId, deleteCallback, now, tz, call, settings,
                   settingsStorage>>

\* handleFormSubmit() with input typed into the form
HandleFormSubmitWith(input, saveOk) ==
    HandleFormSubmitOf(Submitted[formRecordId, input, now, tz], saveOk)

HandleFormSubmit ==
    \E input \in FormInputs, saveOk \in BOOLEAN :
        MayFail(saveOk) /\ HandleFormSubmitWith(input, saveOk)

\* the fields loadForm(record, CATEGORIES) fills the form with
Loaded(record) ==
    Fields(record.description, NumToString(record.amount), record.category, record.date)

\* the fields of the form right after the Edit button, left as loadForm filled them
LoadedInputs ==
    IF /\ ret.op = "loadForm"
       /\ formRecordId # Undef
       /\ findRecordById(St, formRecordId) # NoRecord
       /\ Len(findRecordById(St, formRecordId).description) <= MaxLoaded
    THEN { Loaded(findRecordById(St, formRecordId)) }
    ELSE {}

\* handleFormSubmit() with the given fields in the form
HandleFormSubmitFields(fields, saveOk) ==
    \E sv \in { sanitizeAndValidateForm(FormData(formRecordId, fields), now, tz) } :
        HandleFormSubmitOf(sv, saveOk)

\* handleFormSubmit(), the fields typed or left as they were loaded
HandleFormSubmitTypedOrLoaded ==
    \E fields \in FormInputs \cup MoreFormInputs \cup LoadedInputs, saveOk \in BOOLEAN :
        MayFail(saveOk) /\ HandleFormSubmitFields(fields, saveOk)

\* handleFormSubmit() right after the Edit button, the fields left as loaded
HandleFormSubmitAsLoaded ==
    \E fields \in LoadedInputs, saveOk \in BOOLEAN :
        MayFail(saveOk) /\ HandleFormSubmitFields(fields, saveOk)

\* a click on the navigation link of the form: UI.switchView('form'); the category
\* select holds its options since initializeUI loaded the form, so loadForm is not
\* called
NavigationClick ==
    /\ deleteCallback = Undef
    /\ ret' = Ret("switchView", Undef, TRUE, "none", "")
    /\ UNCHANGED <<records, currentSort, storage, currentSearchRegex, regexError, view,
                   formRecordId, deleteCallback, now, tz, nextId, faults, call, settings,
                   settingsStorage>>

\* Ctrl+N: UI.loadForm(null, CATEGORIES)
NewFormShortcut ==
    /\ deleteCallback = Undef
    /\ formRecordId' = Undef
    /\ ret' = Ret("loadForm", Undef, TRUE, "none", "")
    /\ UNCHANGED <<records, currentSort, storage, currentSearchRegex, regexError, view,
                   deleteCallback, now, tz, nextId, faults, call, settings, settingsStorage>>

\* handleRecordAction(e), the Edit button of a record shown
EditClick ==
    \E id \in Ids(view) :
        /\ deleteCallback = Undef
        /\ findRecordById(St, id) # NoRecord
        /\ formRecordId' = findRecordById(St, id).id
        /\ ret' = Ret("loadForm", Undef, TRUE, "none", "")
        /\ UNCHANGED <<records, currentSort, storage, currentSearchRegex, regexError, view,
                       deleteCallback, now, tz, nextId, faults, call, settings, settingsStorage>>

\* handleRecordAction(e), the Delete button of a record shown: the modal opens
DeleteClick ==
    \E id \in Ids(view) :
        /\ deleteCallback = Undef
        /\ findRecordById(St, id) # NoRecord
        /\ deleteCallback' = id
        /\ ret' = Ret("showModal", Undef, TRUE, "none", "")
        /\ UNCHANGED <<records, currentSort, storage, currentSearchRegex, regexError, view,
                       formRecordId, now, tz, nextId, faults, call, settings, settingsStorage>>

\* confirmDelete(id)
ConfirmDeleteWith(saveOk) ==
    \E del \in { deleteRecord(St, deleteCallback, saveOk) } :
        /\ deleteCallback # Undef
        /\ Apply(del)
        /\ IF del.ret # NoRecord
           THEN Refresh(del.records)
           ELSE UNCHANGED <<currentSearchRegex, view>>
        /\ deleteCallback' = Undef
        /\ ret' = Ret("deleteRecord", deleteCallback, del.ret # NoRecord, del.saved,
                      IF del.ret # NoRecord THEN "Transaction deleted." ELSE "")
        /\ UNCHANGED <<regexError, formRecordId, now, tz, nextId, call, settings, settingsStorage>>

ConfirmDelete == \E saveOk \in BOOLEAN : MayFail(saveOk) /\ ConfirmDeleteWith(saveOk)

\* the Cancel button of the modal: UI.hideModal()
CancelModal ==
    /\ deleteCallback # Undef
    /\ deleteCallback' = Undef
    /\ ret' = Ret("hideModal", Undef, TRUE, "none", "")
    /\ UNCHANGED <<records, currentSort, storage, currentSearchRegex, regexError, view,
                   formRecordId, now, tz, nextId, faults, call, settings, settingsStorage>>

\* a click on the column header of key
SortClickWith(key, saveOk) ==
    \E direction \in { IF key = currentSort.key /\ currentSort.direction = "desc"
                        THEN "asc" ELSE "desc" } :
    \E r \in { setSort(St, key, direction, saveOk) } :
        /\ deleteCallback = Undef
        /\ Apply(r)
        /\ Refresh(r.records)
        /\ ret' = Ret("setSort", Undef, TRUE, r.saved, "")
        /\ UNCHANGED <<regexError, formRecordId, deleteCallback, now, tz, nextId, call, settings, settingsStorage>>

SortClick ==
    \E key \in SortKeys, saveOk \in BOOLEAN : MayFail(saveOk) /\ SortClickWith(key, saveOk)

\* x || fallback for a number x: 0 and NaN are falsy
NumberOr(x, fallback) == IF x = NaN \/ x = 0 THEN fallback ELSE x

\* x.trim() || fallback for a text x
TextOr(x, fallback) == IF Trim(x) = <<>> THEN fallback ELSE Trim(x)

\* the settingsData handleSettingsSubmit reads from the fields of the settings form
settingsData(form) ==
    [baseCurrency |-> TextOr(form.baseCurrency, <<"$">>),
     budgetCap    |-> NumberOr(ParseFloat(form.budgetCap), 0),
     alt1Symbol   |-> TextOr(form.alt1Symbol, <<"€">>),
     alt1Rate     |-> NumberOr(ParseFloat(form.alt1Rate), 1000),
     alt2Symbol   |-> TextOr(form.alt2Symbol, <<"£">>),
     alt2Rate     |-> NumberOr(ParseFloat(form.alt2Rate), 1000)]

\* handleSettingsSubmit() with form typed into the settings form
HandleSettingsSubmitWith(form, saveOk) ==
    \E r \in { updateSettings(settings, settingsStorage, settingsData(form), saveOk) } :
        /\ deleteCallback = Undef
        /\ settings' = r.settings
        /\ settingsStorage' = r.item
        /\ faults' = IF saveOk THEN faults ELSE faults - 1
        /\ ret' = Ret("handleSettingsSubmit", Undef, TRUE, IF saveOk THEN "ok" ELSE "failed",
                      "Settings saved and applied to dashboard.")
        /\ UNCHANGED <<records, currentSort, storage, currentSearchRegex, regexError, view,
                       formRecordId, deleteCallback, now, tz, nextId, call>>

HandleSettingsSubmit ==
    \E form \in SettingsInputs, saveOk \in BOOLEAN :
        MayFail(saveOk) /\ HandleSettingsSubmitWith(form, saveOk)

\* handleImport() with text in the textarea: the store it leaves, whether the
\* import went through (ok), what its saveRecords call returned and the message shown
Rejected(st, message) ==
    [records |-> st.records, currentSort |-> st.currentSort, storage |-> st.storage,
     ok |-> FALSE, saved |-> "none", msg |-> message]

Replaced(st, result, sv) ==
    [records |-> initializeState([st EXCEPT !.storage = sv.storage], result.data).records,
     currentSort |-> st.currentSort, storage |-> sv.storage,
     ok |-> TRUE, saved |-> sv.result, msg |-> result.message]

\* handleImport() when importData returns result
handleImportResult(st, text, result, saveOk) ==
    IF text.kind = "blank" THEN Rejected(st, "Please provide JSON data.")
    ELSE IF result.success
    THEN Replaced(st, result, saveRecords(st.storage, result.data, saveOk))
    ELSE Rejected(st, result.message)

handleImport(st, text, saveOk) == handleImportResult(st, text, Imported[text], saveOk)

\* handleImport() with r for its effect on the store
HandleImportOf(r) ==
    /\ deleteCallback = Undef
    /\ Apply(r)
    /\ IF r.ok THEN Refresh(r.records) ELSE UNCHANGED <<currentSearchRegex, view>>
    /\ ret' = Ret("handleImport", Undef, r.ok, r.saved, r.msg)
    /\ UNCHANGED <<regexError, formRecordId, deleteCallback, now, tz, nextId, settings,
                   settingsStorage>>

HandleImportWith(text, saveOk) ==
    \E r \in { handleImport(St, text, saveOk) } :
        HandleImportOf(r) /\ UNCHANGED call

HandleImport ==
    \E text \in ImportTexts, saveOk \in BOOLEAN :
        MayFail(saveOk) /\ HandleImportWith(text, saveOk)

\* handleSearchInput(input)
HandleSearchInputWith(input) ==
    \E validation \in { Validated[input] } :
    \E v \in { refreshRecordsView(records, IF Trim(input) = <<>> \/ ~validation.isValid
                                            THEN NullRegex ELSE Compiled[input]) } :
        /\ deleteCallback = Undef
        /\ regexError' = IF Trim(input) # <<>> /\ ~validation.isValid
                         THEN validation.message ELSE ""
        /\ view' = v.view
        /\ currentSearchRegex' = v.regex
        /\ ret' = Ret("handleSearchInput", Undef, TRUE, "none", "")
        /\ UNCHANGED <<records, currentSort, storage, formRecordId, deleteCallback,
                       now, tz, nextId, faults, call, settings, settingsStorage>>

HandleSearchInput == \E input \in SearchInputs : HandleSearchInputWith(input)

\* an hour passes
Tick ==
    /\ now < InitNow + MaxTicks
    /\ now' = now + 1
    /\ UNCHANGED <<records, currentSort, storage, currentSearchRegex, regexError, view,
                   formRecordId, deleteCallback, tz, nextId, faults, ret, call, settings, settingsStorage>>

(***************************************************************************)
(* state.js called directly, as by a module that imports it: the caller    *)
(* passes any id, any key and direction, and may change an array it was    *)
(* handed.                                                                 *)
(***************************************************************************)
ApiIds == FirstNewId..(FirstNewId + MaxNewIds - 1)

Reverse(q) == [i \in DOMAIN q |-> q[Len(q) + 1 - i]]

\* what a caller may do to an array it holds: reverse(), shift(), push(q[0])
Mutations(q) ==
    { Reverse(q) }
        \cup (IF q = <<>> THEN {} ELSE { Tail(q) })
        \cup (IF q = <<>> \/ Len(q) >= MaxRecords THEN {} ELSE { q \o <<Head(q)>> })

AddRecordWith(input, saveOk) ==
    \E sv \in { Submitted[Undef, input, now, tz] } :
        /\ sv.validation.isValid
        /\ Len(records) < MaxRecords
        /\ nextId < FirstNewId + MaxNewIds
        /\ \E add \in { addRecord(St, sv.data, nextId, now, saveOk) } :
            /\ Apply(add)
            /\ ret' = Ret("addRecord", add.ret.id, TRUE, add.saved, "")
        /\ nextId' = nextId + 1
        /\ UNCHANGED <<currentSearchRegex, regexError, view, formRecordId, deleteCallback,
                       now, tz, call, settings, settingsStorage>>

AddRecord ==
    \E input \in FormInputs, saveOk \in BOOLEAN :
        MayFail(saveOk) /\ AddRecordWith(input, saveOk)

UpdateRecordWith(id, input, saveOk) ==
    \E sv \in { Submitted[id, input, now, tz] } :
        /\ sv.validation.isValid
        /\ \E upd \in { updateRecord(St, id, sv.data, now, saveOk) } :
            /\ Apply(upd)
            /\ ret' = Ret("updateRecord", id, upd.ret # NoRecord, upd.saved, "")
        /\ UNCHANGED <<currentSearchRegex, regexError, view, formRecordId, deleteCallback,
                       now, tz, nextId, call, settings, settingsStorage>>

UpdateRecord ==
    \E id \in ApiIds, input \in FormInputs, saveOk \in BOOLEAN :
        MayFail(saveOk) /\ UpdateRecordWith(id, input, saveOk)

DeleteRecordWith(id, saveOk) ==
    \E del \in { deleteRecord(St, id, saveOk) } :
        /\ Apply(del)
        /\ ret' = Ret("deleteRecord", id, del.ret # NoRecord, del.saved, "")
        /\ UNCHANGED <<currentSearchRegex, regexError, view, formRecordId, deleteCallback,
                       now, tz, nextId, call, settings, settingsStorage>>

DeleteRecord ==
    \E id \in ApiIds, saveOk \in BOOLEAN : MayFail(saveOk) /\ DeleteRecordWith(id, saveOk)

SetSortWith(key, direction, saveOk) ==
    \E r \in { setSort(St, key, direction, saveOk) } :
        /\ Apply(r)
        /\ ret' = Ret("setSort", Undef, TRUE, r.saved, "")
        /\ UNCHANGED <<currentSearchRegex, regexError, view, formRecordId, deleteCallback,
                       now, tz, nextId, call, settings, settingsStorage>>

SetSort ==
    \E key \in SortKeys, direction \in {"asc", "desc"}, saveOk \in BOOLEAN :
        MayFail(saveOk) /\ SetSortWith(key, direction, saveOk)

\* the caller changes the array that read handed out
Mutate(op, read) ==
    \E changed \in Mutations(read.value) :
        /\ records' = IF read.live THEN changed ELSE records
        /\ ret' = Ret(op, Undef, read.live, "none", "")
        /\ UNCHANGED <<currentSort, storage, currentSearchRegex, regexError, view,
                       formRecordId, deleteCallback, now, tz, nextId, faults, call, settings, settingsStorage>>

GetRecords == Mutate("getRecords", getRecords(St))

FilterRecords ==
    \E input \in SearchInputs :
        Mutate("filterRecords",
               filterRecords(St, IF Validated[input].isValid THEN Compiled[input]
                                 ELSE NullRegex))

(***************************************************************************)
(* The page with a storage that takes every write, the search box left     *)
(* empty and the clock at rest.                                            *)
(***************************************************************************)
Next ==
    \/ Reload
    \/ HandleFormSubmit
    \/ NewFormShortcut
    \/ EditClick
    \/ DeleteClick
    \/ ConfirmDelete
    \/ CancelModal
    \/ SortClick
    \/ HandleImport

Spec == Init /\ [][Next]_vars

(***************************************************************************)
(* The record store under a caller of its interface and the import panel,  *)
(* with a storage that may refuse writes.                                  *)
(***************************************************************************)
InitQuota ==
    /\ Init!1 /\ Init!2 /\ Init!3 /\ Init!4 /\ Init!5 /\ Init!6 /\ Init!7 /\ Init!8
    /\ Init!9 /\ Init!10 /\ Init!11
    /\ faults = MaxFaults
    /\ Init!13 /\ Init!14 /\ Init!15 /\ Init!16

NextQuota ==
    \/ AddRecord
    \/ UpdateRecord
    \/ DeleteRecord
    \/ SetSort
    \/ HandleImport

SpecQuota == InitQuota /\ [][NextQuota]_vars

(***************************************************************************)
(* The page with the search box in use.                                    *)
(***************************************************************************)
NextSearch ==
    \/ HandleSearchInput
    \/ HandleFormSubmit
    \/ HandleImport
    \/ DeleteClick
    \/ ConfirmDelete

SpecSearch == Init /\ [][NextSearch]_vars

(***************************************************************************)
(* The record store under a caller of its interface, the clock running.    *)
(***************************************************************************)
NextStore ==
    \/ AddRecord
    \/ UpdateRecord
    \/ DeleteRecord
    \/ SetSort
    \/ GetRecords
    \/ FilterRecords
    \/ Tick

SpecStore == Init /\ [][NextStore]_vars

(***************************************************************************)
(* The record view: records from the form, from an import with markup in   *)
(* a description and from persistence, with and without a matcher.         *)
(***************************************************************************)
HandleImportMarkup ==
    \E text \in MarkupTexts, saveOk \in BOOLEAN :
        MayFail(saveOk) /\ HandleImportWith(text, saveOk)

NextRender ==
    \/ HandleImportMarkup
    \/ HandleFormSubmit
    \/ HandleSearchInput
    \/ Reload

SpecRender == Init /\ [][NextRender]_vars

(***************************************************************************)
(* Export and import: the store is changed through the form, the Delete    *)
(* button and the column headers; the text of an export is kept in call    *)
(* and pasted into the import panel.                                       *)
(***************************************************************************)
\* handleExport(): downloadData(getRecords())
HandleExport ==
    /\ deleteCallback = Undef
    /\ call.module = "none"
    /\ call' = [module |-> "storage.js", done |-> {"exportData"},
                text |-> exportData(records), exported |-> records]
    /\ ret' = Ret("handleExport", Undef, TRUE, "none", "Data exported successfully.")
    /\ UNCHANGED <<records, currentSort, storage, currentSearchRegex, regexError, view,
                   formRecordId, deleteCallback, now, tz, nextId, faults, settings,
                   settingsStorage>>

\* handleImport() with the exported text in the textarea
ImportExported ==
    /\ call.module = "storage.js"
    /\ "importData" \notin call.done
    /\ \E result \in { importData(call.text) } :
       \E r \in { handleImportResult(St, call.text, result, TRUE) } :
           HandleImportOf(r)
    /\ call' = [call EXCEPT !.done = @ \cup {"importData"}]

NextRoundTrip ==
    \/ HandleFormSubmit
    \/ EditClick
    \/ DeleteClick
    \/ ConfirmDelete
    \/ SortClick
    \/ HandleExport
    \/ ImportExported

SpecRoundTrip == Init /\ [][NextRoundTrip]_vars

(***************************************************************************)
(* The form: typed and loaded fields, the Edit button, the navigation      *)
(* link and the shortcut.                                                  *)
(***************************************************************************)
NextForm ==
    \/ HandleFormSubmitTypedOrLoaded
    \/ EditClick
    \/ NavigationClick
    \/ NewFormShortcut

SpecForm == Init /\ [][NextForm]_vars

(***************************************************************************)
(* The settings form, with a storage that may refuse a write, and page     *)
(* reloads.                                                                *)
(***************************************************************************)
NextSettings ==
    \/ HandleSettingsSubmit
    \/ Reload

SpecSettings == InitQuota /\ [][NextSettings]_vars

(***************************************************************************)
(* search.js called on its own: compileRegex and validateRegexPattern of   *)
(* a pattern, highlightMatches of a text and the matcher compiled.         *)
(***************************************************************************)
PatternTexts ==
    { <<>>, <<" ">>, <<"/">>, <<"/","/">>, <<" ","/","/"," ">>,
      <<"t","e","a">>, <<" ","t","e","a"," ">>, <<"/","t","e","a","/">>,
      <<"c","o","f","f","e","e","|","t","e","a">>,
      <<"/","c","o","f","f","e","e","|","t","e","a","/","i">>,
      <<"/","c","o","f","f","e","e","|","t","e","a","/">>,
      <<"(","u","n","c","l","o","s","e","d">>, <<")">>, <<"a","(","b">>,
      <<"a","|">>, <<"a","m","p">>, <<"(","t","|","b",")","e">>, <<"<","b",">">> }

SubjectTexts ==
    { <<>>, <<"t","e","a">>, <<"I","c","e"," ","T","e","a">>, <<"c","o","f","f","e","e">>,
      <<"/","c","o","f","f","e","e">>, <<"t","e","a","/","i">>,
      <<"<","b",">","t","e","a","<","/","b",">">>, <<"a","&","b","'","\"","a">> }

JFive == [t |-> "number", s |-> <<"5">>]
NonStrings == { JFive, JAbsent, [t |-> "null", s |-> <<>>] }

PatternValues == { JStr(p) : p \in PatternTexts } \cup NonStrings
SubjectValues == { JStr(t) : t \in SubjectTexts } \cup NonStrings

InitSearchCalls ==
    /\ Init!1 /\ Init!2 /\ Init!3 /\ Init!4 /\ Init!5 /\ Init!6 /\ Init!7 /\ Init!8
    /\ Init!9 /\ Init!10 /\ Init!11 /\ Init!12 /\ Init!13 /\ Init!15 /\ Init!16
    /\ call \in { [module |-> "search.js", done |-> {}, input |-> input, text |-> text,
                    compiled |-> NullRegex, validated |-> validateRegexPatternValue(JAbsent),
                    highlighted |-> JAbsent] :
                      input \in PatternValues, text \in SubjectValues }

CompileRegex ==
    /\ call.module = "search.js"
    /\ "compileRegex" \notin call.done
    /\ call' = [call EXCEPT !.done = @ \cup {"compileRegex"},
                            !.compiled = compileRegexValue(call.input)]
    /\ UNCHANGED page

ValidateRegexPattern ==
    /\ call.module = "search.js"
    /\ "validateRegexPattern" \notin call.done
    /\ call' = [call EXCEPT !.done = @ \cup {"validateRegexPattern"},
                            !.validated = validateRegexPatternValue(call.input)]
    /\ UNCHANGED page

\* highlightMatches(text, regex) with the matcher that compileRegex returned
HighlightMatches ==
    /\ call.module = "search.js"
    /\ "compileRegex" \in call.done
    /\ "highlightMatches" \notin call.done
    /\ call' = [call EXCEPT !.done = @ \cup {"highlightMatches"},
                            !.highlighted = highlightMatchesText(call.text, call.compiled)]
    /\ UNCHANGED page

NextSearchCalls ==
    \/ CompileRegex
    \/ ValidateRegexPattern
    \/ HighlightMatches

SpecSearchCalls == InitSearchCalls /\ [][NextSearchCalls]_vars

(***************************************************************************)
(* validators.js called on its own: validateForm and validateField of the  *)
(* fields of a form, at several times of day in several time zones.        *)
(***************************************************************************)
Pizza == <<"p","i","z","z","a">>

DescriptionSamples ==
    { Pizza, <<" ">> \o Pizza \o <<" ">>, <<" ">> \o Pizza, Pizza \o <<" ">>, <<"a">>,
      <<"a"," ","b">>, Pizza \o <<" ">> \o Pizza, <<" ">>, <<>> }

AmountSamples ==
    { <<"1","2",".","3","4">>, <<"9","9","9","9","9","9",".","9","9">>,
      <<"1","2",".","3","4","5">>, <<"0">>, <<"0",".","0","0">>,
      <<"1","0","0","0","0","0","0">>, <<"1","0","0","0","0","0","0",".","0","0">>,
      <<"0","1">>, <<"1",".">>, <<".","5">>, <<"-","1">>, <<" ","1","2">>,
      <<"0",".","0","1">>, <<"0",".","5">>, <<"5">>, <<"1","2",".","3">>,
      <<"a","b","c">>, <<"1","e","3">>, <<" ">>, <<>> }

\* the hours of 2024-03-10 at which the form is validated, and the offsets of the
\* local clock from UTC
ClockSamples == { DaysFromCivil(2024, 3, 10) * 24 + h : h \in {1, 12, 23} }
ZoneOffsets  == { 0 - 8, 0, 10 }

DayOffsets == { 0 - 367, 0 - 366, 0 - 365, 0 - 364, 0 - 300, 0 - 1, 0, 1, 2 }

\* the day number of the local calendar date
LocalDay(nowH, tzH) == (nowH + tzH) \div 24

\* the text of the calendar date k days after the local calendar date
LocalDate(nowH, tzH, k) ==
    LET c == CivilFromDays(LocalDay(nowH, tzH) + k) IN FormatDate(c.y, c.m, c.d)

DateSamples(nowH, tzH) ==
    { LocalDate(nowH, tzH, k) : k \in DayOffsets }
        \cup { <<"2","0","2","4","-","3","-","1","0">>, <<>> }

FormSamples(nowH, tzH) ==
    { Fields(d, <<"1","2",".","3","4">>, Food, LocalDate(nowH, tzH, 0)) :
          d \in DescriptionSamples }
        \cup { Fields(Pizza, a, Food, LocalDate(nowH, tzH, 0)) : a \in AmountSamples }
        \cup { Fields(Pizza, <<"1","2",".","3","4">>, Food, t) : t \in DateSamples(nowH, tzH) }

InitValidatorCalls ==
    /\ Init!1 /\ Init!2 /\ Init!3 /\ Init!4 /\ Init!5 /\ Init!6 /\ Init!7 /\ Init!8
    /\ now \in ClockSamples
    /\ tz \in ZoneOffsets
    /\ Init!11 /\ Init!12 /\ Init!13 /\ Init!15 /\ Init!16
    /\ call \in { [module |-> "validators.js", done |-> {}, formData |-> formData,
                    validation |-> validateForm(NoData, now, tz),
                    field |-> validateField("description", <<>>)] :
                      formData \in FormSamples(now, tz) }

ValidateForm ==
    /\ call.module = "validators.js"
    /\ "validateForm" \notin call.done
    /\ call' = [call EXCEPT !.done = @ \cup {"validateForm"},
                            !.validation = validateForm(call.formData, now, tz)]
    /\ UNCHANGED page

\* validateField('description', value) on the description of the form
ValidateField ==
    /\ call.module = "validators.js"
    /\ "validateField" \notin call.done
    /\ call' = [call EXCEPT !.done = @ \cup {"validateField"},
                            !.field = validateField("description", call.formData.description)]
    /\ UNCHANGED page

NextValidatorCalls ==
    \/ ValidateForm
    \/ ValidateField

SpecValidatorCalls == InitValidatorCalls /\ [][NextValidatorCalls]_vars

(***************************************************************************)
(* state.js called on its own, on a collection as a load or an import may  *)
(* leave it: sortRecords by amount, ascending and then descending, and     *)
(* getDashboardStats.                                                      *)
(***************************************************************************)
StoredRecord(id, description, amount, category) ==
    [id |-> id, description |-> description, amount |-> amount, category |-> category,
     date |-> Today, dateType |-> "string", createdAt |-> InitNow, updatedAt |-> InitNow]

RecordPool ==
    { StoredRecord(1, <<"t","e","a">>, 5000, Food),
      StoredRecord(2, <<"a","t">>, 5000, Fees),
      StoredRecord(3, Pizza, 12500, Food),
      StoredRecord(4, <<"b","u","s">>, 5000, <<"7">>) }

MaxListed == 3

\* the lists of up to MaxListed records of the pool, no record twice
RecordLists ==
    UNION { { q \in [1..n -> RecordPool] : \A i, j \in 1..n : i # j => q[i] # q[j] } :
              n \in 0..MaxListed }

InitStoreCalls ==
    /\ records \in RecordLists
    /\ Init!2 /\ Init!3 /\ Init!4 /\ Init!5
    /\ view = records
    /\ Init!7 /\ Init!8 /\ Init!9 /\ Init!10 /\ Init!11 /\ Init!12 /\ Init!13 /\ Init!15 /\ Init!16
    /\ call = [module |-> "state.js", done |-> {}, ascending |-> <<>>, descending |-> <<>>,
               stats |-> getDashboardStats([records |-> <<>>])]

\* sortRecords(records, 'amount', 'asc')
SortRecordsAscending ==
    \E s \in { sortRecords(records, "amount", "asc") } :
        /\ call.module = "state.js"
        /\ "sortRecordsAscending" \notin call.done
        /\ call' = [call EXCEPT !.done = @ \cup {"sortRecordsAscending"},
                                !.ascending = s.sorted]
        /\ currentSort' = s.currentSort
        /\ UNCHANGED <<records, storage, currentSearchRegex, regexError, view, formRecordId,
                       deleteCallback, now, tz, nextId, faults, ret,
                       settings, settingsStorage>>

\* sortRecords(ascending, 'amount', 'desc') on what the ascending sort returned
SortRecordsDescending ==
    \E s \in { sortRecords(call.ascending, "amount", "desc") } :
        /\ call.module = "state.js"
        /\ "sortRecordsAscending" \in call.done
        /\ "sortRecordsDescending" \notin call.done
        /\ call' = [call EXCEPT !.done = @ \cup {"sortRecordsDescending"},
                                !.descending = s.sorted]
        /\ currentSort' = s.currentSort
        /\ UNCHANGED <<records, storage, currentSearchRegex, regexError, view, formRecordId,
                       deleteCallback, now, tz, nextId, faults, ret,
                       settings, settingsStorage>>

GetDashboardStats ==
    /\ call.module = "state.js"
    /\ "getDashboardStats" \notin call.done
    /\ call' = [call EXCEPT !.done = @ \cup {"getDashboardStats"},
                            !.stats = getDashboardStats(St)]
    /\ UNCHANGED page

NextStoreCalls ==
    \/ SortRecordsAscending
    \/ SortRecordsDescending
    \/ GetDashboardStats

SpecStoreCalls == InitStoreCalls /\ [][NextStoreCalls]_vars

(***************************************************************************)
(* getSevenDayTrend called on its own at several times of day in several   *)
(* time zones, on records dated around the local date.                     *)
(***************************************************************************)
TrendOffsets == { 0 - 8, 0 - 7, 0 - 6, 0 - 1, 0, 1, 2 }

\* a record dated k days after the local date; its amount tells the records apart
\* in a total
DatedRecord(nowH, tzH, k) ==
    [id |-> k + 9, description |-> Pizza, amount |-> 2 ^ (k + 8) * 1000, category |-> Food,
     date |-> LocalDate(nowH, tzH, k), dateType |-> "string",
     createdAt |-> nowH, updatedAt |-> nowH]

MaxDated == 2

\* the lists of up to MaxDated such records, by ascending date
DatedLists(nowH, tzH) ==
    { [i \in 1..Cardinality(ks) |->
          DatedRecord(nowH, tzH,
              CHOOSE k \in ks : Cardinality({ j \in ks : j < k }) = i - 1)] :
        ks \in { x \in SUBSET TrendOffsets : Cardinality(x) <= MaxDated } }

InitTrendCalls ==
    /\ now \in ClockSamples
    /\ tz \in ZoneOffsets
    /\ records \in DatedLists(now, tz)
    /\ Init!2 /\ Init!3 /\ Init!4 /\ Init!5
    /\ view = records
    /\ Init!7 /\ Init!8 /\ Init!11 /\ Init!12 /\ Init!13 /\ Init!15 /\ Init!16
    /\ call = [module |-> "state.js", done |-> {},
               trend |-> getSevenDayTrend([records |-> <<>>], now, tz)]

GetSevenDayTrend ==
    /\ call.module = "state.js"
    /\ "getSevenDayTrend" \notin call.done
    /\ call' = [call EXCEPT !.done = @ \cup {"getSevenDayTrend"},
                            !.trend = getSevenDayTrend(St, now, tz)]
    /\ UNCHANGED page

NextTrendCalls == GetSevenDayTrend

SpecTrendCalls == InitTrendCalls /\ [][NextTrendCalls]_vars

(***************************************************************************)
(* sanitizeInput called on its own, on texts put together from pieces of   *)
(* the patterns it strips.                                                 *)
(***************************************************************************)
JavascriptScheme == <<"j","a","v","a","s","c","r","i","p","t",":">>

SanitizePieces ==
    { <<"<">>, <<">">>, <<"&">>, <<" ">>, <<"a">>,
      <<"j","a","v">>, <<"a","s","c","r","i","p","t",":">>,
      <<"J","a","v","a","S","c","r","i","p","t",":">>,
      <<"o">>, <<"n","x","=">>, <<"O","n","x"," ","=">> }

MaxPieces == 3

RECURSIVE Joined(_)
\* the texts made of up to n pieces
Joined(n) ==
    IF n = 0 THEN { <<>> }
    ELSE { <<>> } \cup { p \o t : p \in SanitizePieces, t \in Joined(n - 1) }

InitSanitizeCalls ==
    /\ Init!1 /\ Init!2 /\ Init!3 /\ Init!4 /\ Init!5 /\ Init!6 /\ Init!7 /\ Init!8
    /\ Init!9 /\ Init!10 /\ Init!11 /\ Init!12 /\ Init!13 /\ Init!15 /\ Init!16
    /\ call \in { [module |-> "validators.js", done |-> {}, input |-> input,
                   output |-> <<>>] : input \in Joined(MaxPieces) }

SanitizeInput ==
    /\ call.module = "validators.js"
    /\ "sanitizeInput" \notin call.done
    /\ call' = [call EXCEPT !.done = @ \cup {"sanitizeInput"},
                            !.output = sanitizeInput(call.input)]
    /\ UNCHANGED page

NextSanitizeCalls == SanitizeInput

SpecSanitizeCalls == InitSanitizeCalls /\ [][NextSanitizeCalls]_vars

(***************************************************************************)
(* Properties.                                                             *)
(***************************************************************************)
Select(recs, keep(_)) == SelectSeq(recs, keep)

\* the pattern of the matcher has a match in one of the four texts of the record
PatternMatches(rx, r) ==
    \/ HasMatch(rx, r.description)
    \/ HasMatch(rx, r.category)
    \/ HasMatch(rx, NumToString(r.amount))
    \/ HasMatch(rx, r.date)

\* C1: with a matcher in the search box, the records shown are exactly the records
\* of the collection, in their order, in which the pattern has a match in the
\* description, the category, the decimal text of the amount or the date; whether
\* a record is shown depends on the pattern and that record alone.
C1_SearchKeepsEveryMatch ==
    ~currentSearchRegex.isNull =>
        view = Select(records, LAMBDA r : PatternMatches(currentSearchRegex, r))

\* the rules of the Field Validator on a record held
SatisfiesRules(r) ==
    /\ r.description # <<>>
    /\ ~IsSpace(r.description[1])
    /\ ~IsSpace(r.description[Len(r.description)])
    /\ r.amount > 0
    /\ r.amount <= 999999990
    /\ r.category # <<>>
    /\ Len(r.date) = 10
    /\ \A k \in 1..10 : IF k \in {5, 8} THEN r.date[k] = "-" ELSE IsDigit(r.date[k])

\* C2: every record the store holds has a description that is non-empty and has
\* no leading or trailing white space, an amount > 0 and <= 999999.99, a category
\* that is non-empty and a date of the form YYYY-MM-DD.
C2_StoreHoldsValidRecords ==
    \A i \in DOMAIN records : SatisfiesRules(records[i])

\* C3: no two records of the collection have the same id.
C3_IdsAreUnique ==
    \A i, j \in DOMAIN records : i # j => records[i].id # records[j].id

\* the field tuples the form accepts at this moment, as handed to the store
ValidData ==
    { Submitted[Undef, input, now, tz].data :
        input \in { f \in FormInputs : Submitted[Undef, f, now, tz].validation.isValid } }

After(r) == [records |-> r.records, currentSort |-> r.currentSort, storage |-> r.storage]

AddThenDelete(data) ==
    deleteRecord(After(addRecord(St, data, nextId, now, TRUE)), nextId, TRUE)

\* C4: in every state of the store, the one after a load or an import included,
\* adding a valid field tuple and then deleting the record by the id add returned
\* leaves the collection as it was before the add: the same records in the same
\* order.
C4_AddThenDeleteRestores ==
    \A data \in ValidData : AddThenDelete(data).records = records

\* C10: a confirmed delete of an id the store holds removes exactly one record, so
\* that the collection is shorter by 1; the other records stay, in their order,
\* and no record with the id is found afterwards.
C10_DeleteRemovesOne ==
    [][\A saveOk \in BOOLEAN :
          (ConfirmDeleteWith(saveOk) /\ deleteCallback \in Ids(records)) =>
              /\ Len(records') = Len(records) - 1
              /\ \E k \in DOMAIN records :
                    /\ records[k].id = deleteCallback
                    /\ records' = SubSeq(records, 1, k - 1) \o SubSeq(records, k + 1, Len(records))
              /\ findRecordById(St', deleteCallback) = NoRecord]_vars

\* an element of an imported array that has a truthy id, a string description, a
\* numeric amount, a truthy date and a truthy category
PassesImportCheck(e) ==
    /\ ~e.isNull
    /\ e.id # Undef
    /\ e.description.t = "string"
    /\ e.amount.t = "number"
    /\ e.date # <<>>
    /\ e.category # <<>>

Importable(text) ==
    /\ text.kind = "array"
    /\ \A i \in DOMAIN text.elems : PassesImportCheck(text.elems[i])

\* C5 as claimed: an import of an array whose every element passes the check makes
\* the collection in memory and the persisted collection the imported array; any
\* other import leaves both as they were and shows a failure message.
C5_ImportReplacesBoth ==
    \A text \in ImportTexts, saveOk \in { b \in BOOLEAN : MayFail(b) } :
        LET r == handleImport(St, text, saveOk)
        IN  IF Importable(text)
            THEN /\ r.records = JsonParse(text.elems)
                 /\ loadRecords(r.storage) = JsonParse(text.elems)
            ELSE /\ r.records = records
                 /\ r.storage = storage
                 /\ ~r.ok
                 /\ r.msg # ""

\* C5, amended: an import of an array whose every element passes the check makes
\* the collection in memory the imported array, and the persisted collection too
\* when the write succeeds (a refused write leaves the persisted collection as it
\* was); any other import leaves both as they were and shows a failure message.
C5_ImportReplacesMemory ==
    \A text \in ImportTexts, saveOk \in BOOLEAN :
        LET r == handleImport(St, text, saveOk)
        IN  IF Importable(text)
            THEN /\ r.records = JsonParse(text.elems)
                 /\ r.saved = "ok" => loadRecords(r.storage) = JsonParse(text.elems)
                 /\ r.saved # "ok" => r.storage = storage
            ELSE /\ r.records = records
                 /\ r.storage = storage
                 /\ ~r.ok
                 /\ r.msg # ""

\* an import has replaced the collection in memory while its write was refused
C5_ImportWithRefusedWrite ==
    /\ ret.op = "handleImport"
    /\ ret.ok
    /\ ret.saved = "failed"
    /\ records # <<>>
    /\ loadRecords(storage) # records

\* C6: changing the array that getRecords or filterRecords returned leaves the
\* collection of the store, as a later getRecords shows it, unchanged.
C6_ReadsReturnCopies ==
    [][(GetRecords \/ FilterRecords) => getRecords(St').value = getRecords(St).value]_vars

\* the outcomes of one mutation with its write accepted and with its write refused
WriteOutcome(accepted, refused) ==
    /\ accepted.saved = "ok"
    /\ loadRecords(accepted.storage) = accepted.records
    /\ refused.saved = "failed"
    /\ refused.storage = storage
    /\ refused.records = accepted.records

\* C7: after an add, update, delete, setSort or import whose write succeeds the
\* persisted collection is the collection in memory, whatever writes were refused
\* before; a refused write is reported as a value, leaves the persisted collection
\* as it was and the collection in memory as the mutation made it.
C7_PersistedFollowsMemory ==
    /\ \A data \in ValidData :
          WriteOutcome(addRecord(St, data, nextId, now, TRUE),
                       addRecord(St, data, nextId, now, FALSE))
    /\ \A id \in Ids(records), data \in ValidData :
          WriteOutcome(updateRecord(St, id, data, now, TRUE),
                       updateRecord(St, id, data, now, FALSE))
    /\ \A id \in Ids(records) :
          WriteOutcome(deleteRecord(St, id, TRUE), deleteRecord(St, id, FALSE))
    /\ \A key \in SortKeys, direction \in {"asc", "desc"} :
          WriteOutcome(setSort(St, key, direction, TRUE), setSort(St, key, direction, FALSE))
    /\ \A text \in { t \in ImportTexts : Importable(t) } :
          WriteOutcome(handleImport(St, text, TRUE), handleImport(St, text, FALSE))
    /\ ret.saved = "ok" => loadRecords(storage) = records

\* a write has succeeded after an earlier write was refused
C7_WriteAfterRefusedWrite ==
    /\ faults < MaxFaults
    /\ ret.saved = "ok"
    /\ Len(records) = MaxRecords
    /\ loadRecords(storage) = records

Count(recs, r) == Cardinality({ i \in DOMAIN recs : recs[i] = r })

Bit(b) == IF b THEN 1 ELSE 0

\* the record update(id, data) is to yield from the record before it
Updated(before, data) ==
    [id |-> before.id, createdAt |-> before.createdAt,
     description |-> Trim(data.description), amount |-> ParseFloat(data.amount),
     category |-> data.category, date |-> data.date, dateType |-> "string",
     updatedAt |-> now]

\* C8: update(id, fields) on an id the store holds yields a record with the id and
\* the createdAt of the record before, the new description, amount, category and
\* date and updatedAt at the time of the call; the collection keeps its length and
\* every other record.
C8_UpdateReplacesFields ==
    \A id \in Ids(records), data \in ValidData, saveOk \in BOOLEAN :
        LET upd    == updateRecord(St, id, data, now, saveOk)
            before == findRecordById(St, id)
        IN  /\ upd.ret = Updated(before, data)
            /\ Len(upd.records) = Len(records)
            /\ \A r \in Range(records) \cup Range(upd.records) :
                  Count(upd.records, r) =
                      Count(records, r) - Bit(r = before) + Bit(r = Updated(before, data))

\* a record has been updated at a later time than it was created, beside another
C8_UpdatedLater ==
    /\ ret.op = "updateRecord"
    /\ ret.ok
    /\ Len(records) = 2
    /\ findRecordById(St, ret.id).updatedAt > findRecordById(St, ret.id).createdAt

\* C9: update(id, fields) and delete(id) with an id the store does not hold return
\* null, issue no write and leave the collection, the sort order and the persisted
\* collection as they were.
C9_AbsentIdChangesNothing ==
    /\ \A id \in ApiIds \ Ids(records), data \in ValidData, saveOk \in BOOLEAN :
          /\ updateRecord(St, id, data, now, saveOk).ret = NoRecord
          /\ updateRecord(St, id, data, now, saveOk).saved = "none"
          /\ After(updateRecord(St, id, data, now, saveOk)) = St
          /\ deleteRecord(St, id, saveOk).ret = NoRecord
          /\ deleteRecord(St, id, saveOk).saved = "none"
          /\ After(deleteRecord(St, id, saveOk)) = St
    /\ (ret.op \in {"updateRecord", "deleteRecord"} /\ ~ret.ok) => ret.saved = "none"

\* a delete has been called with an id that a store holding records does not hold
C9_DeleteOfAbsentId ==
    /\ ret.op = "deleteRecord"
    /\ ~ret.ok
    /\ records # <<>>
    /\ ret.id \notin Ids(records)

\* recs is in the order sort: for each adjacent pair the comparison on the key is
\* a number that is not above 0 when ascending and not below 0 when descending
Ordered(recs, sort) ==
    \A i \in 1..(Len(recs) - 1) :
        NumLe(Comparator(recs[i], recs[i + 1], sort.key, sort.direction), 0)

\* C11: immediately after an add, an update and a setSort the whole collection is
\* in the active sort order, each adjacent pair compared on the key being
\* non-decreasing when ascending and non-increasing when descending; a delete of a
\* collection in that order leaves it in that order.
C11_OrderedAfterMutation ==
    /\ (ret.op \in {"addRecord", "updateRecord", "setSort"} /\ ret.ok) =>
           Ordered(records, currentSort)
    /\ \A id \in Ids(records) :
           Ordered(records, currentSort) =>
               Ordered(deleteRecord(St, id, TRUE).records, currentSort)

\* the matcher accepts the text: it is a matcher and its pattern has a match in it
Accepts(rx, text) == ~rx.isNull /\ HasMatch(rx, text)

Applied(module, fns) == call.module = module /\ fns \subseteq call.done

\* C13: compile of a pattern between slashes followed by the flag letter i, as in
\* "/coffee|tea/i", yields a matcher that accepts exactly the texts the matcher
\* compiled from the bare pattern accepts.
C13_DelimitedPatternWithFlag ==
    \A p \in PatternTexts :
        (Applied("search.js", {"compileRegex"})
            /\ call.input = JStr(<<"/">> \o p \o <<"/", "i">>)) =>
                \A text \in SubjectTexts :
                    Accepts(call.compiled, text) <=> Accepts(compileRegex(p), text)

\* the parentheses of a pattern do not pair up
RECURSIVE Depth(_)
Depth(p) ==
    IF p = <<>> THEN 0
    ELSE LET d == Depth(SubSeq(p, 1, Len(p) - 1))
         IN  IF d < 0 THEN d
             ELSE IF p[Len(p)] = "(" THEN d + 1
             ELSE IF p[Len(p)] = ")" THEN d - 1
             ELSE d

Unbalanced(p) == Depth(p) # 0

\* a text without one leading and one trailing slash, when it has both
WithoutSlashes(p) ==
    IF p # <<>> /\ p[1] = "/" /\ p[Len(p)] = "/" THEN SubSeq(p, 2, Len(p) - 1) ELSE p

C15_ValidateAgreesWithCompile ==
    (Applied("search.js", {"compileRegex", "validateRegexPattern"})
        /\ call.input.t = "string") =>
            (call.validated.isValid <=> ~call.compiled.isNull)

\* the text of one reserved character, escaped
EscapeOf(c) ==
    CASE c = "&"  -> <<"&","a","m","p",";">>
      [] c = "<"  -> <<"&","l","t",";">>
      [] c = ">"  -> <<"&","g","t",";">>
      [] c = "\"" -> <<"&","q","u","o","t",";">>
      [] c = "'"  -> <<"&","#","x","2","7",";">>
      [] OTHER    -> <<c>>

RECURSIVE Escaped(_)
Escaped(text) == IF text = <<>> THEN <<>> ELSE EscapeOf(Head(text)) \o Escaped(Tail(text))

\* a highlighted text read back: the text without its markers (plain), the marked
\* segments as places in that text (at, 0-based, and len), and whether every
\* opening marker has its closing marker (ok)
ReadMarksOf(out, opens, closes, kept) ==
    [plain |-> [n \in 1..Cardinality(kept) |->
                   out[CHOOSE i \in kept : Cardinality({ k \in kept : k <= i }) = n]],
     marks |-> { [at  |-> Cardinality({ k \in kept : k <= j }),
                  len |-> Min({ c \in closes : c >= j + Len(MarkOpen) } \cup {Len(out)})
                             - (j + Len(MarkOpen))] : j \in opens },
     ok    |-> /\ Cardinality(opens) = Cardinality(closes)
               /\ \A j \in opens : \E c \in closes :
                      /\ c >= j + Len(MarkOpen)
                      /\ \A o \in opens : ~(j < o /\ o < c)]

ReadMarksIn(out, opens, closes) ==
    ReadMarksOf(out, opens, closes,
                { i \in DOMAIN out :
                    /\ \A j \in opens  : ~(j < i /\ i <= j + Len(MarkOpen))
                    /\ \A c \in closes : ~(c < i /\ i <= c + Len(MarkClose)) })

ReadMarks(out) ==
    ReadMarksIn(out, { j \in 0..Len(out) : MatchesAt(out, MarkOpen, j) },
                     { c \in 0..Len(out) : MatchesAt(out, MarkClose, c) })

\* the pattern matches a text of length len at the index k of text
MatchOfLength(rx, text, k, len) ==
    \E a \in AltsAt(rx, text, k) : Len(rx.alts[a]) = len

\* what C16 says of the output read back, for a matcher rx and a text
HighlightedAs(read, rx, text) ==
    /\ read.ok
    /\ read.plain = Escaped(text)
    /\ \A i \in DOMAIN read.plain : read.plain[i] \notin {"<", ">"}
    /\ \A m \in read.marks : MatchOfLength(rx, read.plain, m.at, m.len)
    /\ \A k \in 0..Len(read.plain) :
           (/\ AltsAt(rx, read.plain, k) # {}
            /\ ~\E m \in read.marks : m.at < k /\ k < m.at + m.len) =>
                \E m \in read.marks : m.at = k

\* C16: highlight of a non-empty text with a matcher returns the text with its five
\* reserved characters escaped and every match of the matcher in the escaped text
\* wrapped in a marker, so that every raw < and > of the output belongs to a marker;
\* with no matcher, or a value that is no text, it returns the input unchanged.
C16_HighlightEscapesAndMarks ==
    Applied("search.js", {"highlightMatches"}) =>
        IF call.compiled.isNull \/ call.text.t # "string"
        THEN call.highlighted = call.text
        ELSE call.text.s # <<>> =>
                /\ call.highlighted.t = "string"
                /\ HighlightedAs(ReadMarks(call.highlighted.s), call.compiled, call.text.s)

\* a text with reserved characters has been highlighted with a matcher that
\* matches in it
C16_MarkedBesideEscaped ==
    /\ Applied("search.js", {"highlightMatches"})
    /\ ~call.compiled.isNull
    /\ call.text.t = "string"
    /\ \E i \in DOMAIN call.text.s : call.text.s[i] = "<"
    /\ ReadMarks(call.highlighted.s).marks # {}

\* a text has a white-space character first or last
HasOuterSpace(d) == d # <<>> /\ (IsSpace(d[1]) \/ IsSpace(d[Len(d)]))

\* C17: validation of a record whose description is not blank and has a white-space
\* first or last character, such as " pizza ", yields the description error
\* 'Description cannot have leading or trailing spaces.'; a description without
\* leading or trailing white space, such as "pizza", yields no description error.
C17_OuterSpaceMessage ==
    Applied("validators.js", {"validateForm"}) =>
        /\ (Trim(call.formData.description) # <<>> /\ HasOuterSpace(call.formData.description)) =>
               call.validation.errors.description =
                   "Description cannot have leading or trailing spaces."
        /\ (call.formData.description # <<>> /\ ~HasOuterSpace(call.formData.description)) =>
               call.validation.errors.description = ""

\* the places n at which a text splits into an integer without leading zero (or 0)
\* of n digits and nothing, or a point and 1 or 2 digits
AmountSplits(a) ==
    { n \in 1..Len(a) :
        /\ \A i \in 1..n : IsDigit(a[i])
        /\ (n = 1 \/ a[1] # "0")
        /\ \/ n = Len(a)
           \/ /\ a[n + 1] = "."
              /\ Len(a) - n - 1 \in {1, 2}
              /\ \A i \in (n + 2)..Len(a) : IsDigit(a[i]) }

\* the value, in hundredths, of an amount text that splits at n
Hundredths(a, n) ==
    DigitsValue(SubSeq(a, 1, n)) * 100
        + DigitsValue(SubSeq(SubSeq(a, n + 2, Len(a)) \o <<"0", "0">>, 1, 2))

\* C18: validateRecord accepts an amount text exactly when it is an integer without
\* leading zero (or 0), optionally followed by a point and 1 or 2 digits, and its
\* value is > 0 and <= 999999.99; a text of that form whose value is 0 fails the
\* positivity check, one whose value is above 999999.99 the upper bound, any other
\* text the format.
C18_AmountAccepted ==
    Applied("validators.js", {"validateForm"}) =>
        LET a == call.formData.amount
            e == call.validation.errors.amount
        IN  IF AmountSplits(a) = {}
            THEN e \in { "Amount must be a positive number with maximum 2 decimal places.",
                         "This field is required.", "Amount is required." }
            ELSE \A n \in AmountSplits(a) :
                    /\ (e = "") <=> (Hundredths(a, n) > 0 /\ Hundredths(a, n) <= 99999999)
                    /\ Hundredths(a, n) = 0 => e = "Amount must be greater than 0."
                    /\ Hundredths(a, n) > 99999999 => e = "Amount is too large."

\* the largest amount has been validated and accepted
C18_LargestAccepted ==
    /\ Applied("validators.js", {"validateForm"})
    /\ call.formData.amount = <<"9","9","9","9","9","9",".","9","9">>
    /\ call.validation.errors.amount = ""
    /\ call.validation.isValid

\* C19: at any time of day and in any time zone of the local clock, validateRecord
\* accepts the current local calendar date and a date 300 days before it, rejects
\* every later date as being in the future, and rejects a date 366 days before it.
C19_DateAccepted ==
    Applied("validators.js", {"validateForm"}) =>
        LET t == call.formData.date
            e == call.validation.errors.date
        IN  /\ t = LocalDate(now, tz, 0) => e = ""
            /\ t = LocalDate(now, tz, 0 - 300) => e = ""
            /\ t \in { LocalDate(now, tz, k) : k \in { d \in DayOffsets : d > 0 } } =>
                   e = "Date cannot be in the future."
            /\ t = LocalDate(now, tz, 0 - 366) => e # ""

\* C12 as claimed: for every record list, lists with equal amounts included, the
\* sort by amount descending of the list sorted by amount ascending is the exact
\* reverse of the ascending ordering.
C12_DescendingIsReverse ==
    Applied("state.js", {"sortRecordsDescending"}) =>
        call.descending = Reverse(call.ascending)

\* the index of a record in a list that holds it once
IndexIn(q, r) == CHOOSE i \in DOMAIN q : q[i] = r

\* C12, amended: the sort by amount descending of the list sorted by amount
\* ascending holds the same records in non-increasing order of amount, records of
\* the same amount in the relative order they have in the ascending ordering; it
\* is the exact reverse of the ascending ordering when no two records have the
\* same amount.
C12_DescendingKeepsTies ==
    Applied("state.js", {"sortRecordsDescending"}) =>
        LET asc  == call.ascending
            desc == call.descending
        IN  /\ Len(desc) = Len(asc)
            /\ Range(desc) = Range(asc)
            /\ \A i \in 1..(Len(asc) - 1) : asc[i].amount <= asc[i + 1].amount
            /\ \A i \in 1..(Len(desc) - 1) : desc[i].amount >= desc[i + 1].amount
            /\ \A i, j \in DOMAIN asc :
                   (i < j /\ asc[i].amount = asc[j].amount) =>
                       IndexIn(desc, asc[i]) < IndexIn(desc, asc[j])
            /\ (\A i, j \in DOMAIN asc : i # j => asc[i].amount # asc[j].amount) =>
                   desc = Reverse(asc)

\* a list with two records of one amount and a record of another has been sorted
\* both ways, and the descending ordering is not the reverse of the ascending one
C12_TiedAndSorted ==
    /\ Applied("state.js", {"sortRecordsDescending"})
    /\ Len(call.ascending) = MaxListed
    /\ call.ascending[1].amount = call.ascending[2].amount
    /\ call.ascending[2].amount < call.ascending[3].amount
    /\ call.descending # Reverse(call.ascending)

\* the categories whose value is the highest
Highest(value) == { c \in DOMAIN value : \A d \in DOMAIN value : value[d] <= value[c] }

\* of the categories whose value is the highest, the one whose first record comes
\* earliest in the collection
FirstOfHighest(recs, value) ==
    CHOOSE c \in Highest(value) :
        \A d \in Highest(value) : FirstOf(recs, c) <= FirstOf(recs, d)

\* C20: stats() reports as topCategoryByCount (topCategoryByAmount) the category of
\* the highest record count (total amount), of several that tie the one whose first
\* record comes earliest in the collection, and 'N/A' for an empty collection.
C20_FirstOfTiedCategories ==
    Applied("state.js", {"getDashboardStats"}) =>
        IF records = <<>>
        THEN /\ call.stats.topCategoryByCount = NotApplicable
             /\ call.stats.topCategoryByAmount = NotApplicable
        ELSE /\ call.stats.topCategoryByCount =
                    FirstOfHighest(records, call.stats.categoryCounts)
             /\ call.stats.topCategoryByAmount =
                    FirstOfHighest(records, call.stats.categoryAmounts)

\* C21: sevenDayTrend returns 8 buckets labelled with the local calendar dates from
\* 6 days before today through 1 day after today, and the amount of each bucket is
\* the total of the records dated the date its label shows; so a record dated
\* today or yesterday is counted and one dated eight days ago is not, at any time
\* of day in any time zone.
C21_TrendBucketsAreLocalDates ==
    Applied("state.js", {"getSevenDayTrend"}) =>
        /\ Len(call.trend.labels) = 8
        /\ Len(call.trend.amounts) = 8
        /\ \A k \in 1..8 :
              /\ call.trend.labels[k] = ShortDate(LocalDay(now, tz) - 7 + k)
              /\ call.trend.amounts[k] =
                    SumAmounts(SelectSeq(records,
                        LAMBDA r : r.date = LocalDate(now, tz, k - 7)))

\* the budget cap of s is not negative and both its rates are above 0
WithinRange(s) == s.budgetCap >= 0 /\ s.alt1Rate > 0 /\ s.alt2Rate > 0

\* C22: in every state reached by loading the settings and by settings-form
\* submissions, the budget cap is not negative and both alternate currency rates
\* are above 0, in the settings held and in the settings persisted.
C22_SettingsWithinRange ==
    /\ WithinRange(settings)
    /\ WithinRange(loadSettings(settingsStorage))

\* C23: a call of sortRecords on any list, with any key and direction, leaves the
\* active sort order getCurrentSort reports and the store's collection as they
\* were (only setSort changes the active order, so a later add or update still
\* sorts by the order last given to setSort).
C23_SortKeepsActiveOrder ==
    [][(call'.done \ call.done) \cap {"sortRecordsAscending", "sortRecordsDescending"} # {}
          => currentSort' = currentSort /\ records' = records]_vars

\* a submission is blocked when validateForm reports an error for some field
HasErrors(sv) == \E f \in DOMAIN sv.validation.errors : sv.validation.errors[f] # ""

HasWarnings(sv) == \E w \in DOMAIN sv.validation.warnings : sv.validation.warnings[w] # ""

\* the submission performed no add and no update and reported the failure
Refused ==
    /\ records' = records
    /\ storage' = storage
    /\ ~ret'.ok
    /\ ret'.msg = "Form validation failed. Please correct the errors."

EmptyWhenSanitized(input) ==
    sanitizeInput(input.description) = <<>> \/ sanitizeInput(input.category) = <<>>

C27_UpdateLeavesEditMode ==
    (ret.op = "updateRecord" /\ ret.ok) => formRecordId = Undef

\* C28: editing a stored record and submitting the form with the fields as loaded
\* leaves the description and the category of the record as they were stored.
C28_UnchangedEditKeepsText ==
    [][HandleFormSubmitAsLoaded =>
          \A i \in DOMAIN records :
              records[i].id = formRecordId =>
                  \E j \in DOMAIN records' :
                      /\ records'[j].id = formRecordId
                      /\ records'[j].description = records[i].description
                      /\ records'[j].category = records[i].category]_vars

\* the text has a match of /on\w+\s*=/i
HasEventHandler(s) == \E i \in 1..Len(s) : EventHandlerLen(Drop(s, i)) > 0

\* the text has a match of /javascript:/i
HasJavascriptScheme(s) ==
    \E k \in 0..Len(s) : MatchesAt(LowerText(s), JavascriptScheme, k)

\* C25: the text sanitizeInput returns has no angle bracket, no 'javascript:' in any
\* letter case and no event-handler pattern on<word>=, also when these are nested
\* in the input or come about by an earlier replacement, and it has no space at
\* either end.
C25_SanitizedHasNoPattern ==
    (call.module = "validators.js" /\ "sanitizeInput" \in call.done) =>
        /\ \A i \in DOMAIN call.output : call.output[i] \notin {"<", ">"}
        /\ ~HasJavascriptScheme(call.output)
        /\ ~HasEventHandler(call.output)
        /\ Trim(call.output) = call.output

\* a text written into the page has its reserved characters escaped: outside the
\* markers no raw angle bracket or quote is left
WrittenEscaped(w) ==
    \E read \in { ReadMarks(w) } :
        /\ read.ok
        /\ \A i \in DOMAIN read.plain : read.plain[i] \notin {"<", ">", "\"", "'"}

\* C26: every description and category the record view writes into the page has
\* its reserved characters escaped, with a matcher and without one, for records
\* from the form, from an import and from persistence.
C26_RecordViewEscapes ==
    \A i \in DOMAIN view :
        /\ WrittenEscaped(renderedCells(view[i], currentSearchRegex).description)
        /\ WrittenEscaped(renderedCells(view[i], currentSearchRegex).category)

\* C29: directly after the startup load and directly after a successful import the
\* collection is ordered by the active sort order, whatever order the stored or
\* imported array has.
C29_LoadedInActiveOrder ==
    (ret.op = "init" \/ (ret.op = "handleImport" /\ ret.ok)) =>
        Ordered(records, currentSort)

\* C30: export followed by import is a round trip: for a store reached from the
\* empty store by validated adds, updates, deletes and setSort, importing the text
\* of the export succeeds and leaves the collection that was exported, with the
\* same records, field values and order, in memory and in the stored item.
C30_ExportImportRoundTrip ==
    (call.module = "storage.js" /\ "importData" \in call.done /\ ret.op = "handleImport") =>
        /\ ret.ok
        /\ records = call.exported
        /\ storage = JsonStringify(call.exported)

\* the export of two records of different dates, ordered by amount, has been
\* imported
C30_TwoRecordsRestored ==
    /\ call.module = "storage.js"
    /\ "importData" \in call.done
    /\ ret.op = "handleImport"
    /\ Len(call.exported) = 2
    /\ call.exported[1].date # call.exported[2].date
    /\ currentSort.key = "amount"

====
